---- MODULE Spec2Model ----
(***************************************************************************)
(* Plot-Control System: Graph Store, Snapshot Manager, Branch Manager and  *)
(* Coherence Solver.                                                       *)
(*                                                                         *)
(* JavaScript arrays and metadata objects are reference values.  The       *)
(* entity classes hand them out and take them in without copying           *)
(* (toJSON, fromJSON, update), so the model keeps them in heaps (arr,      *)
(* meta, flow) and the entity records hold addresses.  Scalar fields       *)
(* (title, premise, cost, intent, name) are copied by value, as in the     *)
(* source.  The free-text fields why/how, traits, description and arcData  *)
(* are written and read exactly like premise/name and are left out.        *)
(* createdAt is written once by the constructor and copied verbatim        *)
(* afterwards, so it is a function of the identifier and left out too.     *)
(* Relationship arrays are never mutated in place by the modelled          *)
(* operations (addRelationship / removeRelationship build a new array), so *)
(* they are kept as values inside the character record.                    *)
(* Artifacts are a fourth entity kind that no modelled operation reads or   *)
(* writes through a scene, arc or character, and they are left out.        *)
(***************************************************************************)
EXTENDS Integers, Sequences, FiniteSets, TLC

\* ---------------------------------------------------------------- bounds
MaxScenes == 2      \* scene identifiers ever issued by generateId('scene')
MaxArcs == 1        \* arc identifiers ever issued
MaxChars == 2       \* character identifiers ever issued
MaxTime == 1        \* last clock value (Date.now() in milliseconds)
MaxSnaps == 1       \* snapshots ever taken through the SnapshotManager
MaxInputLen == 1    \* longest array a caller passes in (links, presence, scenes)
MaxCalls == 4       \* calls made in one run
MaxGraph == 3       \* scenes of a store handed to the cycle detection
MaxMirrorScenes == 2    \* scenes of a store handed to the sidecar, one store apart
MaxMirrorChars == 2     \* characters of a store handed to the sidecar
CapScenes == 21         \* scenes of the one store large enough for a sum above 100
MaxTimelines == 2       \* timeline identifiers a caller uses
MaxStamp == 1           \* last timestamp of a time point
MaxTimelineCalls == 4   \* calls that change the TimelineManager in one run

SceneIds == 1..MaxScenes
ArcIds == 1..MaxArcs
CharIds == 1..MaxChars
GraphIds == 1..MaxGraph
BranchNames == {"main", "feature"}
Phases == {"anchor", "rise", "impact", "descent"}

\* number of snapshot holders besides the live store
Holders == Cardinality(BranchNames) + MaxSnaps
ArrAddr == 1..((2 * MaxScenes + MaxArcs + MaxChars) * (Holders + 1))
MetaAddr == 1..((MaxScenes + MaxArcs + MaxChars) * (Holders + 1))
FlowAddr == 1..(MaxArcs * (Holders + 1))

VARIABLES
    scenes,         \* GraphDB.scenes: Map in insertion order, as a sequence
    arcs,           \* GraphDB.arcs
    characters,     \* GraphDB.characters
    arr,            \* heap of string[] arrays (links, presence lists, arc scenes)
    meta,           \* heap of metadata objects (their updatedAt)
    flow,           \* heap of AridFlow objects
    now,            \* the clock read by new Date()
    nextScene, nextArc, nextChar,   \* identifiers issued so far + 1
    snapshots,      \* SnapshotManager.snapshots
    nextSnap,
    maxSnapshots,   \* SnapshotManager.maxSnapshots
    branches,       \* BranchManager.branches
    currentBranch,  \* BranchManager.currentBranch
    lastStored,     \* history: what each branch's snapshot held when it was last stored
    lastOp,         \* the last call and what it returned / whether it threw
    calls,          \* number of calls made so far
    graphA, graphB, \* the two GraphDB instances handed to the MirrorSidecar
    sidecar,        \* MirrorSidecar.config (strategy, threshold) and its driftHistory
    lastMirror,     \* the last sidecar call, the MirrorDrift and the SyncReport it gave
    timelines,      \* TimelineManager.timelines: Map in insertion order, as a sequence
    sceneToTimeline,    \* TimelineManager.sceneToTimeline
    lastTimeline,   \* the last TimelineManager call and the TemporalReport it gave
    timelineCalls,  \* number of calls that changed the TimelineManager
    shared,         \* the arrays that an entity of graphA and one of graphB both hold
    activeMonitors, \* MirrorSidecar.activeMonitors: Map in insertion order
    timers,         \* the runtime's setInterval timers, by handle, cleared ones kept
    syncs,          \* the synchronize calls made so far, each with its locals
    microtasks,     \* the runtime's queue of suspended calls, by index into syncs
    solver          \* CoherenceSolver.visited and recursionStack, as the last call left them

storeVars == <<scenes, arcs, characters, arr, meta, flow, now, nextScene, nextArc,
               nextChar, snapshots, nextSnap, maxSnapshots, branches, currentBranch, lastStored, lastOp,
               calls>>

mirrorVars == <<graphA, graphB, sidecar, lastMirror>>

timelineVars == <<timelines, sceneToTimeline, lastTimeline, timelineCalls>>

runtimeVars == <<shared, activeMonitors, timers, syncs, microtasks, solver>>

vars == <<scenes, arcs, characters, arr, meta, flow, now, nextScene, nextArc,
          nextChar, snapshots, nextSnap, maxSnapshots, branches, currentBranch, lastStored, lastOp, calls,
          graphA, graphB, sidecar, lastMirror,
          timelines, sceneToTimeline, lastTimeline, timelineCalls,
          shared, activeMonitors, timers, syncs, microtasks, solver>>

\* ------------------------------------------------------- array primitives
Range(s) == {s[i] : i \in DOMAIN s}

\* Array.prototype.includes
Includes(s, x) == \E i \in DOMAIN s : s[i] = x

\* Array.prototype.indexOf, 1-based; 0 when absent
IndexOf(s, x) ==
    IF Includes(s, x) THEN CHOOSE i \in DOMAIN s : s[i] = x /\ \A j \in 1..(i - 1) : s[j] # x
    ELSE 0

\* splice(index, 1)
SpliceOut(s, i) == [k \in 1..(Len(s) - 1) |-> IF k < i THEN s[k] ELSE s[k + 1]]

\* splice(position, 0, x) with a 0-based position
SpliceIn(s, pos, x) ==
    [k \in 1..(Len(s) + 1) |-> IF k <= pos THEN s[k] ELSE IF k = pos + 1 THEN x ELSE s[k - 1]]

\* position of the entity with identifier id in a Map, 0 when absent (Map.get)
Pos(m, id) == IF \E i \in DOMAIN m : m[i].id = id
              THEN CHOOSE i \in DOMAIN m : m[i].id = id ELSE 0

Has(m, id) == Pos(m, id) # 0

\* Map.delete
MapDelete(m, id) == IF Has(m, id) THEN SpliceOut(m, Pos(m, id)) ELSE m

\* sequences over S of length at most n
RECURSIVE SeqsUpTo(_, _)
SeqsUpTo(S, n) ==
    IF n = 0 THEN {<<>>}
    ELSE SeqsUpTo(S, n - 1) \cup {Append(s, x) : s \in {t \in SeqsUpTo(S, n - 1) : Len(t) = n - 1}, x \in S}

\* an optional array argument: absent, or one of the arrays in S
OptArray(S) == {[has |-> FALSE, val |-> <<>>]} \cup {[has |-> TRUE, val |-> v] : v \in S}

\* --------------------------------------------------------------- the heap
SnapshotsOf(sn, br) == {sn[i].snapshot : i \in DOMAIN sn} \cup {br[b].snapshot : b \in DOMAIN br}

SceneRecs(sc, sn, br) == Range(sc) \cup UNION {Range(s.scenes) : s \in SnapshotsOf(sn, br)}
ArcRecs(ar, sn, br) == Range(ar) \cup UNION {Range(s.arcs) : s \in SnapshotsOf(sn, br)}
CharRecs(ch, sn, br) == Range(ch) \cup UNION {Range(s.characters) : s \in SnapshotsOf(sn, br)}

\* addresses that some live entity or some stored snapshot still refers to
ArrRefs(sc, ar, ch, sn, br) ==
    {r.links : r \in SceneRecs(sc, sn, br)} \cup {r.characterPresence : r \in SceneRecs(sc, sn, br)}
    \cup {r.scenes : r \in ArcRecs(ar, sn, br)} \cup {r.scenePresence : r \in CharRecs(ch, sn, br)}

MetaRefs(sc, ar, ch, sn, br) ==
    {r.metadata : r \in SceneRecs(sc, sn, br)} \cup {r.metadata : r \in ArcRecs(ar, sn, br)}
    \cup {r.metadata : r \in CharRecs(ch, sn, br)}

FlowRefs(ar, sn, br) == {r.aridFlow : r \in ArcRecs(ar, sn, br)} \ {0}

MinOf(S) == CHOOSE x \in S : \A y \in S : x <= y

\* the k-th smallest element of S
RECURSIVE Kth(_, _)
Kth(S, k) == IF k = 1 THEN MinOf(S) ELSE Kth(S \ {MinOf(S)}, k - 1)

FreeArr == ArrAddr \ ArrRefs(scenes, arcs, characters, snapshots, branches)
FreeMeta == MetaAddr \ MetaRefs(scenes, arcs, characters, snapshots, branches)
FreeFlow == FlowAddr \ FlowRefs(arcs, snapshots, branches)

\* `new Array` / `new Object`: the k-th unused address
NewArr(k) == Kth(FreeArr, k)
NewMeta(k) == Kth(FreeMeta, k)
NewFlow == MinOf(FreeFlow)

EmptyFlow == [anchor |-> <<>>, rise |-> <<>>, impact |-> <<>>, descent |-> <<>>]

\* The next state: the given maps and heaps, with unreachable heap cells
\* cleared (garbage collection, invisible to the program).
Commit(sc, ar, ch, sn, br, h) ==
    LET ra == ArrRefs(sc, ar, ch, sn, br)
        rm == MetaRefs(sc, ar, ch, sn, br)
        rf == FlowRefs(ar, sn, br)
    IN /\ scenes' = sc /\ arcs' = ar /\ characters' = ch
       /\ snapshots' = sn /\ branches' = br
       /\ arr' = [x \in ArrAddr |-> IF x \in ra THEN h.arr[x] ELSE <<>>]
       /\ meta' = [x \in MetaAddr |-> IF x \in rm THEN h.meta[x] ELSE 0]
       /\ flow' = [x \in FlowAddr |-> IF x \in rf THEN h.flow[x] ELSE EmptyFlow]

\* a Graph Store call: the Snapshot and Branch Managers are not involved
Store(sc, ar, ch, h) ==
    /\ Commit(sc, ar, ch, snapshots, branches, h)
    /\ UNCHANGED <<now, nextSnap, maxSnapshots, currentBranch, lastStored>>

\* the three heaps as one value
Heap == [arr |-> arr, meta |-> meta, flow |-> flow]

\* the CoherenceReport of a call that returns none
NoReport == [coherent |-> TRUE, issues |-> <<>>, warnings |-> <<>>]

Op(name, ok, id) ==
    [op |-> name, ok |-> ok, id |-> id, branch |-> "", conflicts |-> <<>>, cycles |-> <<>>,
     report |-> NoReport]

\* the call returns (ok) or fails after it has acted (~ok)
Return(name, ok, id) ==
    /\ calls < MaxCalls
    /\ calls' = calls + 1
    /\ lastOp' = Op(name, ok, id)
    /\ UNCHANGED mirrorVars
    /\ UNCHANGED timelineVars
    /\ UNCHANGED runtimeVars

\* A call that throws (or returns false) before touching anything, or that only
\* reads.  The state after it is the state before it, so every continuation is
\* already explored from there and the run is not followed further.
NoEffect(op) ==
    /\ calls < MaxCalls
    /\ calls' = MaxCalls
    /\ lastOp' = op
    /\ UNCHANGED <<scenes, arcs, characters, arr, meta, flow, snapshots, branches,
                   now, nextScene, nextArc, nextChar, nextSnap, maxSnapshots, currentBranch, lastStored>>
    /\ UNCHANGED mirrorVars
    /\ UNCHANGED timelineVars
    /\ UNCHANGED runtimeVars

Throws(name, id) == NoEffect(Op(name, FALSE, id))

\* ------------------------------------------------- entity class methods
\* push x on the array at address a unless it is there, stamping metadata m
PushUnique(h, a, m, x) ==
    IF Includes(h.arr[a], x) THEN h
    ELSE [h EXCEPT !.arr[a] = Append(@, x), !.meta[m] = now]

\* splice the first x out of the array at address a, stamping metadata m
RemoveFirst(h, a, m, x) ==
    IF IndexOf(h.arr[a], x) > 0
    THEN [h EXCEPT !.arr[a] = SpliceOut(@, IndexOf(@, x)), !.meta[m] = now]
    ELSE h

addLink(h, s, target) == PushUnique(h, s.links, s.metadata, target)
addCharacter(h, s, c) == PushUnique(h, s.characterPresence, s.metadata, c)
removeCharacter(h, s, c) == RemoveFirst(h, s.characterPresence, s.metadata, c)
addScenePresence(h, c, s) == PushUnique(h, c.scenePresence, c.metadata, s)
removeScenePresence(h, c, s) == RemoveFirst(h, c.scenePresence, c.metadata, s)
removeScene(h, a, s) == RemoveFirst(h, a.scenes, a.metadata, s)

\* Scene.validate
SceneValid(title, premise, cost) == title # "" /\ premise # "" /\ cost >= 0

\* Arc.validate
ArcValid(intent, sceneList) == intent # "" /\ Len(sceneList) > 0

\* Character.validate
CharacterValid(name, rels) ==
    name # "" /\ \A i \in DOMAIN rels : rels[i].strength >= 1 /\ rels[i].strength <= 10

\* ------------------------------------------------------------ the inputs
Titles == {"", "T"}
Premises == {"", "X", "Y"}
Costs == {-1, 1}
Intents == {"", "I", "J"}
Names == {"", "N"}
Strengths == {5, 11}
NoArray == [has |-> FALSE, val |-> <<>>]
NoCost == [has |-> FALSE, val |-> 0]
\* CharacterData.arcData: absent, or a CharacterArc whose two states are filled
\* in and whose turningPoints array is there or not
NoArcData == [has |-> FALSE, turningPoints |-> FALSE]
CharacterArcs == {NoArcData} \cup {[has |-> TRUE, turningPoints |-> t] : t \in BOOLEAN}
Relationships == [characterId : CharIds, strength : Strengths]
SceneLists == SeqsUpTo(SceneIds, MaxInputLen)
CharLists == SeqsUpTo(CharIds, MaxInputLen)
RelLists == SeqsUpTo(Relationships, MaxInputLen)

\* createScene data: the scalar fields with at most one optional array
SceneData ==
    {[title |-> t, premise |-> p, cost |-> c, links |-> NoArray, characterPresence |-> NoArray] :
        t \in Titles, p \in {"", "X"}, c \in Costs}
    \cup {[title |-> "T", premise |-> "X", cost |-> 1, links |-> l, characterPresence |-> NoArray] :
        l \in OptArray(SceneLists)}
    \cup {[title |-> "T", premise |-> "X", cost |-> 1, links |-> NoArray, characterPresence |-> cp] :
        cp \in OptArray(CharLists)}

\* Partial<SceneData> with one key
SceneUpdates ==
    {[premise |-> p, cost |-> NoCost, links |-> NoArray, characterPresence |-> NoArray] :
        p \in Premises}
    \cup {[premise |-> "", cost |-> [has |-> TRUE, val |-> c], links |-> NoArray,
           characterPresence |-> NoArray] : c \in Costs}
    \cup {[premise |-> "", cost |-> NoCost, links |-> l, characterPresence |-> NoArray] :
        l \in OptArray(SceneLists)}
    \cup {[premise |-> "", cost |-> NoCost, links |-> NoArray, characterPresence |-> cp] :
        cp \in OptArray(CharLists)}

\* Partial<ArcData> with one key
ArcUpdates ==
    {[intent |-> i, scenes |-> NoArray] : i \in Intents}
    \cup {[intent |-> "", scenes |-> l] : l \in OptArray(SceneLists)}

\* createCharacter data: the name with at most one optional array
CharacterData ==
    {[name |-> n, relationships |-> NoArray, scenePresence |-> NoArray, arcData |-> NoArcData] :
        n \in Names}
    \cup {[name |-> "N", relationships |-> r, scenePresence |-> NoArray, arcData |-> NoArcData] :
        r \in OptArray(RelLists)}
    \cup {[name |-> "N", relationships |-> NoArray, scenePresence |-> sp, arcData |-> NoArcData] :
        sp \in OptArray(SceneLists)}

\* Partial<CharacterData> with one key
CharacterUpdates ==
    {[name |-> n, relationships |-> NoArray, scenePresence |-> NoArray] : n \in Names}
    \cup {[name |-> "", relationships |-> r, scenePresence |-> NoArray] : r \in OptArray(RelLists)}
    \cup {[name |-> "", relationships |-> NoArray, scenePresence |-> sp] :
        sp \in OptArray(SceneLists)}

\* ------------------------------------------------------------ Graph Store
\* GraphDB.createScene
createScene(data) ==
    /\ calls < MaxCalls
    /\ nextScene <= MaxScenes
    /\ IF SceneValid(data.title, data.premise, data.cost)
       THEN LET s == [id |-> nextScene, title |-> data.title, premise |-> data.premise,
                      cost |-> data.cost,
                      links |-> NewArr(1), characterPresence |-> NewArr(2),
                      metadata |-> NewMeta(1)]
                h == [Heap EXCEPT !.arr[s.links] = data.links.val,
                                  !.arr[s.characterPresence] = data.characterPresence.val,
                                  !.meta[s.metadata] = now]
            IN /\ Store(Append(scenes, s), arcs, characters, h)
               /\ nextScene' = nextScene + 1
               /\ Return("createScene", TRUE, nextScene)
               /\ UNCHANGED <<nextArc, nextChar>>
       ELSE Throws("createScene", nextScene)

\* Scene.addLink on a scene obtained from getScene
sceneAddLink(id, target) ==
    /\ calls < MaxCalls
    /\ Has(scenes, id)
    /\ Store(scenes, arcs, characters, addLink(Heap, scenes[Pos(scenes, id)], target))
    /\ Return("addLink", TRUE, id)
    /\ UNCHANGED <<nextScene, nextArc, nextChar>>

\* Scene.update
sceneUpdate(h, s, updates) ==
    LET l == IF updates.links.has THEN NewArr(1) ELSE s.links
        p == IF updates.characterPresence.has THEN NewArr(2) ELSE s.characterPresence
    IN [rec |-> [s EXCEPT !.premise = IF updates.premise # "" THEN updates.premise ELSE @,
                          !.cost = IF updates.cost.has THEN updates.cost.val ELSE @,
                          !.links = l, !.characterPresence = p],
        heap |-> [h EXCEPT !.arr[l] = IF updates.links.has THEN updates.links.val ELSE @,
                           !.arr[p] = IF updates.characterPresence.has
                                      THEN updates.characterPresence.val ELSE @,
                           !.meta[s.metadata] = now]]

\* GraphDB.updateScene
updateScene(id, updates) ==
    /\ calls < MaxCalls
    /\ IF ~Has(scenes, id) THEN Throws("updateScene", id)
       ELSE LET i == Pos(scenes, id)
                u == sceneUpdate(Heap, scenes[i], updates)
            IN /\ Store([scenes EXCEPT ![i] = u.rec], arcs, characters, u.heap)
               /\ Return("updateScene", SceneValid(u.rec.title, u.rec.premise, u.rec.cost), id)
               /\ UNCHANGED <<nextScene, nextArc, nextChar>>

RECURSIVE RemoveFromArcs(_, _, _, _)
RemoveFromArcs(h, ar, i, id) ==
    IF i > Len(ar) THEN h ELSE RemoveFromArcs(removeScene(h, ar[i], id), ar, i + 1, id)

\* a deleteScene that leaves the characters as they are
KeptInCharacters(h, present, i, id) == h

RECURSIVE RemoveFromCharacters(_, _, _, _)
RemoveFromCharacters(h, present, i, id) ==
    IF i > Len(present) THEN h
    ELSE RemoveFromCharacters(
            IF Has(characters, present[i])
            THEN removeScenePresence(h, characters[Pos(characters, present[i])], id) ELSE h,
            present, i + 1, id)

\* GraphDB.deleteScene
deleteScene(id) ==
    /\ calls < MaxCalls
    /\ IF ~Has(scenes, id)
       THEN Throws("deleteScene", id)
       ELSE LET s == scenes[Pos(scenes, id)]
                h1 == RemoveFromArcs(Heap, arcs, 1, id)
                h2 == RemoveFromCharacters(h1, arr[s.characterPresence], 1, id)
            IN /\ Store(MapDelete(scenes, id), arcs, characters, h2)
               /\ Return("deleteScene", TRUE, id)
               /\ UNCHANGED <<nextScene, nextArc, nextChar>>

\* GraphDB.createArc (no validation: the arc starts without scenes)
createArc(intent) ==
    /\ calls < MaxCalls
    /\ nextArc <= MaxArcs
    /\ LET a == [id |-> nextArc, intent |-> intent, scenes |-> NewArr(1), aridFlow |-> 0,
                 metadata |-> NewMeta(1)]
           h == [Heap EXCEPT !.arr[a.scenes] = <<>>, !.meta[a.metadata] = now]
       IN Store(scenes, Append(arcs, a), characters, h)
    /\ nextArc' = nextArc + 1
    /\ Return("createArc", TRUE, nextArc)
    /\ UNCHANGED <<nextScene, nextChar>>

\* GraphDB.updateArc: updateIntent, then the scenes assignment, then validate
updateArc(id, updates) ==
    /\ calls < MaxCalls
    /\ IF ~Has(arcs, id) THEN Throws("updateArc", id)
       ELSE LET i == Pos(arcs, id)
                a == arcs[i]
                l == IF updates.scenes.has THEN NewArr(1) ELSE a.scenes
                rec == [a EXCEPT !.intent = IF updates.intent # "" THEN updates.intent ELSE @,
                                 !.scenes = l]
                h == [Heap EXCEPT !.arr[l] = IF updates.scenes.has THEN updates.scenes.val ELSE @,
                                  !.meta[a.metadata] = IF updates.intent # "" THEN now ELSE @]
            IN /\ Store(scenes, [arcs EXCEPT ![i] = rec], characters, h)
               /\ Return("updateArc", ArcValid(rec.intent, h.arr[l]), id)
               /\ UNCHANGED <<nextScene, nextArc, nextChar>>

\* GraphDB.deleteArc
deleteArc(id) ==
    /\ calls < MaxCalls
    /\ IF ~Has(arcs, id) THEN Throws("deleteArc", id)
       ELSE /\ Store(scenes, MapDelete(arcs, id), characters, Heap)
            /\ Return("deleteArc", TRUE, id)
            /\ UNCHANGED <<nextScene, nextArc, nextChar>>

\* GraphDB.addSceneToArc with Arc.addScene; position -1 stands for `undefined`
addSceneToArc(arcId, sceneId, position) ==
    /\ calls < MaxCalls
    /\ IF ~Has(arcs, arcId) \/ ~Has(scenes, sceneId) THEN Throws("addSceneToArc", arcId)
       ELSE LET a == arcs[Pos(arcs, arcId)]
                old == arr[a.scenes]
            IN IF Includes(old, sceneId) THEN Throws("addSceneToArc", arcId)
               ELSE /\ Store(scenes, arcs, characters,
                             [Heap EXCEPT !.arr[a.scenes] =
                                             IF position >= 0 /\ position <= Len(old)
                                             THEN SpliceIn(old, position, sceneId)
                                             ELSE Append(old, sceneId),
                                          !.meta[a.metadata] = now])
                    /\ Return("addSceneToArc", TRUE, arcId)
                    /\ UNCHANGED <<nextScene, nextArc, nextChar>>

\* Arc.addToAridPhase on an arc obtained from getArc: initializeAridFlow runs
\* before the membership test, so a rejected call can leave an empty flow behind
addToAridPhase(arcId, phase, sceneId) ==
    /\ calls < MaxCalls
    /\ Has(arcs, arcId)
    /\ LET i == Pos(arcs, arcId)
           a == arcs[i]
           f == IF a.aridFlow = 0 THEN NewFlow ELSE a.aridFlow
           h0 == IF a.aridFlow = 0
                 THEN [Heap EXCEPT !.flow[f] = EmptyFlow, !.meta[a.metadata] = now]
                 ELSE Heap
           inArc == Includes(arr[a.scenes], sceneId)
           h1 == IF inArc /\ ~Includes(h0.flow[f][phase], sceneId)
                 THEN [h0 EXCEPT !.flow[f][phase] = Append(@, sceneId), !.meta[a.metadata] = now]
                 ELSE h0
       IN /\ Store(scenes, [arcs EXCEPT ![i].aridFlow = f], characters, h1)
          /\ Return("addToAridPhase", inArc, arcId)
    /\ UNCHANGED <<nextScene, nextArc, nextChar>>

\* GraphDB.createCharacter
createCharacter(data) ==
    /\ calls < MaxCalls
    /\ nextChar <= MaxChars
    /\ IF CharacterValid(data.name, data.relationships.val)
       THEN LET c == [id |-> nextChar, name |-> data.name,
                      relationships |-> data.relationships.val,
                      scenePresence |-> NewArr(1), arcData |-> data.arcData,
                      metadata |-> NewMeta(1)]
                h == [Heap EXCEPT !.arr[c.scenePresence] = data.scenePresence.val,
                                  !.meta[c.metadata] = now]
            IN /\ Store(scenes, arcs, Append(characters, c), h)
               /\ nextChar' = nextChar + 1
               /\ Return("createCharacter", TRUE, nextChar)
               /\ UNCHANGED <<nextScene, nextArc>>
       ELSE Throws("createCharacter", nextChar)

\* GraphDB.updateCharacter with Character.update, then validate
updateCharacter(id, updates) ==
    /\ calls < MaxCalls
    /\ IF ~Has(characters, id) THEN Throws("updateCharacter", id)
       ELSE LET i == Pos(characters, id)
                c == characters[i]
                p == IF updates.scenePresence.has THEN NewArr(1) ELSE c.scenePresence
                rec == [c EXCEPT !.name = IF updates.name # "" THEN updates.name ELSE @,
                                 !.relationships = IF updates.relationships.has
                                                   THEN updates.relationships.val ELSE @,
                                 !.scenePresence = p]
                h == [Heap EXCEPT !.arr[p] = IF updates.scenePresence.has
                                             THEN updates.scenePresence.val ELSE @,
                                  !.meta[c.metadata] = now]
            IN /\ Store(scenes, arcs, [characters EXCEPT ![i] = rec], h)
               /\ Return("updateCharacter", CharacterValid(rec.name, rec.relationships), id)
               /\ UNCHANGED <<nextScene, nextArc, nextChar>>

RECURSIVE RemoveFromScenes(_, _, _, _)
RemoveFromScenes(h, present, i, id) ==
    IF i > Len(present) THEN h
    ELSE RemoveFromScenes(
            IF Has(scenes, present[i])
            THEN removeCharacter(h, scenes[Pos(scenes, present[i])], id) ELSE h,
            present, i + 1, id)

\* Character.removeRelationship: a new filtered array, metadata always stamped
removeRelationship(c, id) ==
    LET Keep(r) == r.characterId # id
    IN [c EXCEPT !.relationships = SelectSeq(@, Keep)]

\* GraphDB.deleteCharacter
deleteCharacter(id) ==
    /\ calls < MaxCalls
    /\ IF ~Has(characters, id)
       THEN Throws("deleteCharacter", id)
       ELSE LET c == characters[Pos(characters, id)]
                h1 == RemoveFromScenes(Heap, arr[c.scenePresence], 1, id)
                stamped == {characters[i].metadata : i \in DOMAIN characters}
                h2 == [h1 EXCEPT !.meta = [x \in MetaAddr |-> IF x \in stamped THEN now ELSE @[x]]]
                stripped == [i \in DOMAIN characters |-> removeRelationship(characters[i], id)]
            IN /\ Store(scenes, arcs, MapDelete(stripped, id), h2)
               /\ Return("deleteCharacter", TRUE, id)
               /\ UNCHANGED <<nextScene, nextArc, nextChar>>

\* GraphDB.addCharacterToScene
addCharacterToScene(characterId, sceneId) ==
    /\ calls < MaxCalls
    /\ IF ~Has(characters, characterId) \/ ~Has(scenes, sceneId)
       THEN Throws("addCharacterToScene", characterId)
       ELSE LET c == characters[Pos(characters, characterId)]
                s == scenes[Pos(scenes, sceneId)]
            IN /\ Store(scenes, arcs, characters,
                        addCharacter(addScenePresence(Heap, c, sceneId), s, characterId))
               /\ Return("addCharacterToScene", TRUE, characterId)
               /\ UNCHANGED <<nextScene, nextArc, nextChar>>

\* GraphDB.removeCharacterFromScene
removeCharacterFromScene(characterId, sceneId) ==
    /\ calls < MaxCalls
    /\ IF ~Has(characters, characterId) \/ ~Has(scenes, sceneId)
       THEN Throws("removeCharacterFromScene", characterId)
       ELSE LET c == characters[Pos(characters, characterId)]
                s == scenes[Pos(scenes, sceneId)]
            IN /\ Store(scenes, arcs, characters,
                        removeCharacter(removeScenePresence(Heap, c, sceneId), s, characterId))
               /\ Return("removeCharacterFromScene", TRUE, characterId)
               /\ UNCHANGED <<nextScene, nextArc, nextChar>>

\* GraphDB.createRelationship with Character.addRelationship (no validation)
createRelationship(characterId1, characterId2, strength) ==
    /\ calls < MaxCalls
    /\ IF ~Has(characters, characterId1) \/ ~Has(characters, characterId2)
       THEN Throws("createRelationship", characterId1)
       ELSE LET i == Pos(characters, characterId1)
                c == characters[i]
                rec == [removeRelationship(c, characterId2) EXCEPT
                           !.relationships = Append(@, [characterId |-> characterId2,
                                                        strength |-> strength])]
            IN /\ Store(scenes, arcs, [characters EXCEPT ![i] = rec],
                        [Heap EXCEPT !.meta[c.metadata] = now])
               /\ Return("createRelationship", TRUE, characterId1)
               /\ UNCHANGED <<nextScene, nextArc, nextChar>>

\* the clock advances between calls
Tick ==
    /\ now < MaxTime
    /\ now' = now + 1
    /\ UNCHANGED <<scenes, arcs, characters, arr, meta, flow, nextScene, nextArc, nextChar,
                   snapshots, nextSnap, maxSnapshots, branches, currentBranch, lastStored, lastOp, calls>>
    /\ UNCHANGED mirrorVars
    /\ UNCHANGED timelineVars
    /\ UNCHANGED runtimeVars

\* ------------------------------------------------- snapshot and restore
\* GraphDB.createSnapshot: toJSON of every entity.  toJSON copies the scalar
\* fields and hands out the entity's own arrays, flow and metadata objects.
createSnapshot == [scenes |-> scenes, arcs |-> arcs, characters |-> characters]

\* GraphDB.loadSnapshot without its characters block
loadSnapshotNoCharacters(snapshot) ==
    LET free == MetaAddr \ MetaRefs(<<>>, <<>>, <<>>, snapshots, branches)
        ns == Len(snapshot.scenes)
        sc == [i \in DOMAIN snapshot.scenes |-> [snapshot.scenes[i] EXCEPT !.metadata = Kth(free, i)]]
        ar == [i \in DOMAIN snapshot.arcs |-> [snapshot.arcs[i] EXCEPT !.metadata = Kth(free, ns + i)]]
        old == [x \in MetaAddr |->
                  IF \E i \in DOMAIN sc : sc[i].metadata = x
                  THEN snapshot.scenes[CHOOSE i \in DOMAIN sc : sc[i].metadata = x].metadata
                  ELSE IF \E i \in DOMAIN ar : ar[i].metadata = x
                  THEN snapshot.arcs[CHOOSE i \in DOMAIN ar : ar[i].metadata = x].metadata
                  ELSE x]
    IN [scenes |-> sc, arcs |-> ar, characters |-> <<>>, threw |-> FALSE,
        heap |-> [Heap EXCEPT !.meta = [x \in MetaAddr |-> meta[old[x]]]]]

\* Character.fromJSON maps over data.arcData.turningPoints whenever arcData is
\* there: a TypeError when the array is not
fromJSONThrows(data) == data.arcData.has /\ ~data.arcData.turningPoints

\* GraphDB.loadSnapshot: clear, then fromJSON of every record in turn, scenes,
\* arcs, characters.  fromJSON keeps the record's arrays and flow object and
\* builds a new metadata object.  A record whose fromJSON throws ends the call
\* there, with the records before it loaded.
loadSnapshot(snapshot) ==
    LET free == MetaAddr \ MetaRefs(<<>>, <<>>, <<>>, snapshots, branches)
        ns == Len(snapshot.scenes)
        na == Len(snapshot.arcs)
        bad == {i \in DOMAIN snapshot.characters : fromJSONThrows(snapshot.characters[i])}
        loaded == IF bad = {} THEN Len(snapshot.characters) ELSE MinOf(bad) - 1
        sc == [i \in DOMAIN snapshot.scenes |-> [snapshot.scenes[i] EXCEPT !.metadata = Kth(free, i)]]
        ar == [i \in DOMAIN snapshot.arcs |-> [snapshot.arcs[i] EXCEPT !.metadata = Kth(free, ns + i)]]
        ch == [i \in 1..loaded |->
                  [snapshot.characters[i] EXCEPT !.metadata = Kth(free, ns + na + i)]]
        old == [x \in MetaAddr |->
                  IF \E i \in DOMAIN sc : sc[i].metadata = x
                  THEN snapshot.scenes[CHOOSE i \in DOMAIN sc : sc[i].metadata = x].metadata
                  ELSE IF \E i \in DOMAIN ar : ar[i].metadata = x
                  THEN snapshot.arcs[CHOOSE i \in DOMAIN ar : ar[i].metadata = x].metadata
                  ELSE IF \E i \in DOMAIN ch : ch[i].metadata = x
                  THEN snapshot.characters[CHOOSE i \in DOMAIN ch : ch[i].metadata = x].metadata
                  ELSE x]
    IN [scenes |-> sc, arcs |-> ar, characters |-> ch, threw |-> bad # {},
        heap |-> [Heap EXCEPT !.meta = [x \in MetaAddr |-> meta[old[x]]]]]

\* graph.loadSnapshot(graph.createSnapshot()): the store reloads its own snapshot
reloadSnapshot ==
    /\ calls < MaxCalls
    /\ LET l == loadSnapshot(createSnapshot)
       IN /\ Store(l.scenes, l.arcs, l.characters, l.heap)
          /\ Return("reloadSnapshot", ~l.threw, 0)
    /\ UNCHANGED <<nextScene, nextArc, nextChar>>

\* ------------------------------------------------------ Snapshot Manager
\* constructor(maxSnapshots: number = 10)
DefaultMaxSnapshots == 10

\* a storeSnapshot that pushes and never shifts
storeUnbounded(stored) == Append(snapshots, stored)

\* SnapshotManager.storeSnapshot: push, then shift while over the maximum
storeSnapshot(stored) ==
    LET all == Append(snapshots, stored)
    IN IF Len(all) > maxSnapshots THEN SubSeq(all, Len(all) - maxSnapshots + 1, Len(all)) ELSE all

\* createAutoSnapshot and createManualSnapshot of a run that takes up to
\* limit snapshots: the metadata differ, the stored snapshot does not
\* (autoSnapshotEnabled is true and nothing here turns it off)
snapshotTaken(name, limit) ==
    /\ calls < MaxCalls
    /\ nextSnap <= limit
    /\ Commit(scenes, arcs, characters,
              storeSnapshot([id |-> nextSnap, snapshot |-> createSnapshot]), branches, Heap)
    /\ nextSnap' = nextSnap + 1
    /\ Return(name, TRUE, nextSnap)
    /\ UNCHANGED <<now, nextScene, nextArc, nextChar, maxSnapshots, currentBranch, lastStored>>

\* SnapshotManager.createManualSnapshot
createManualSnapshot == snapshotTaken("createManualSnapshot", MaxSnaps)

\* SnapshotManager.rollback
rollback(snapshotId) ==
    /\ calls < MaxCalls
    /\ IF ~Has(snapshots, snapshotId) THEN Throws("rollback", snapshotId)
       ELSE LET l == loadSnapshot(snapshots[Pos(snapshots, snapshotId)].snapshot)
            IN /\ Commit(l.scenes, l.arcs, l.characters, snapshots, branches, l.heap)
               /\ Return("rollback", ~l.threw, snapshotId)
               /\ UNCHANGED <<now, nextScene, nextArc, nextChar, nextSnap, maxSnapshots, currentBranch,
                              lastStored>>

\* SnapshotManager.createAutoSnapshot
createAutoSnapshot(limit) == snapshotTaken("createAutoSnapshot", limit)

\* SnapshotManager.deleteSnapshot
deleteSnapshot(snapshotId) ==
    /\ calls < MaxCalls
    /\ IF ~Has(snapshots, snapshotId) THEN Throws("deleteSnapshot", snapshotId)
       ELSE /\ Commit(scenes, arcs, characters,
                      SpliceOut(snapshots, Pos(snapshots, snapshotId)), branches, Heap)
            /\ Return("deleteSnapshot", TRUE, snapshotId)
            /\ UNCHANGED <<now, nextScene, nextArc, nextChar, nextSnap, maxSnapshots,
                           currentBranch, lastStored>>

\* SnapshotManager.setMaxSnapshots: throws below 1, else sets the maximum and
\* shifts while over it
setMaxSnapshots(max) ==
    /\ calls < MaxCalls
    /\ IF max < 1 THEN Throws("setMaxSnapshots", max)
       ELSE /\ maxSnapshots' = max
            /\ Commit(scenes, arcs, characters,
                      IF Len(snapshots) > max
                      THEN SubSeq(snapshots, Len(snapshots) - max + 1, Len(snapshots))
                      ELSE snapshots,
                      branches, Heap)
            /\ Return("setMaxSnapshots", TRUE, max)
            /\ UNCHANGED <<now, nextScene, nextArc, nextChar, nextSnap, currentBranch,
                           lastStored>>

\* -------------------------------------------------------- Branch Manager
BranchOp(name, ok, branch, conflicts) ==
    [op |-> name, ok |-> ok, id |-> 0, branch |-> branch, conflicts |-> conflicts,
     cycles |-> <<>>, report |-> NoReport]

Returns(op) ==
    /\ calls' = calls + 1
    /\ lastOp' = op
    /\ UNCHANGED mirrorVars
    /\ UNCHANGED timelineVars
    /\ UNCHANGED runtimeVars

\* what a SceneData record holds, its arrays followed (timestamps left out)
SceneContent(d) ==
    [id |-> d.id, title |-> d.title, premise |-> d.premise, cost |-> d.cost,
     links |-> arr[d.links], characterPresence |-> arr[d.characterPresence]]

\* what an ArcData record holds
ArcContent(d) ==
    [id |-> d.id, intent |-> d.intent, scenes |-> arr[d.scenes],
     hasFlow |-> d.aridFlow # 0,
     aridFlow |-> IF d.aridFlow # 0 THEN flow[d.aridFlow] ELSE EmptyFlow]

\* what a CharacterData record holds
CharacterContent(d) ==
    [id |-> d.id, name |-> d.name, relationships |-> d.relationships,
     scenePresence |-> arr[d.scenePresence], arcData |-> d.arcData]

\* what a GraphSnapshot holds
SnapshotContent(snapshot) ==
    [scenes |-> [i \in DOMAIN snapshot.scenes |-> SceneContent(snapshot.scenes[i])],
     arcs |-> [i \in DOMAIN snapshot.arcs |-> ArcContent(snapshot.arcs[i])],
     characters |-> [i \in DOMAIN snapshot.characters |->
                        CharacterContent(snapshot.characters[i])]]

\* JSON.stringify of a SceneData record
SceneJSON(d) ==
    [id |-> d.id, title |-> d.title, premise |-> d.premise, cost |-> d.cost,
     links |-> arr[d.links], characterPresence |-> arr[d.characterPresence],
     updatedAt |-> meta[d.metadata]]

\* JSON.stringify of an ArcData record (an undefined aridFlow is left out)
ArcJSON(d) ==
    [id |-> d.id, intent |-> d.intent, scenes |-> arr[d.scenes],
     hasFlow |-> d.aridFlow # 0,
     aridFlow |-> IF d.aridFlow # 0 THEN flow[d.aridFlow] ELSE EmptyFlow,
     updatedAt |-> meta[d.metadata]]

\* JSON.stringify of a CharacterData record
CharacterJSON(d) ==
    [id |-> d.id, name |-> d.name, relationships |-> d.relationships,
     scenePresence |-> arr[d.scenePresence], arcData |-> d.arcData,
     updatedAt |-> meta[d.metadata]]

\* JSON.stringify of the entity lists of a GraphSnapshot
SnapshotJSON(snapshot) ==
    [scenes |-> [i \in DOMAIN snapshot.scenes |-> SceneJSON(snapshot.scenes[i])],
     arcs |-> [i \in DOMAIN snapshot.arcs |-> ArcJSON(snapshot.arcs[i])],
     characters |-> [i \in DOMAIN snapshot.characters |->
                        CharacterJSON(snapshot.characters[i])]]

Conflicts(type, recs) == [i \in DOMAIN recs |-> [type |-> type, entityId |-> recs[i].id]]

\* a detection that also walks the target's scenes for modifications
detectConflictsBothWays(source, target) ==
    LET SceneModified(s) ==
            /\ Has(target.scenes, s.id)
            /\ SceneJSON(s) # SceneJSON(target.scenes[Pos(target.scenes, s.id)])
        TargetModified(s) ==
            /\ Has(source.scenes, s.id)
            /\ SceneJSON(s) # SceneJSON(source.scenes[Pos(source.scenes, s.id)])
        SceneDeleted(s) == ~Has(source.scenes, s.id)
        ArcModified(a) ==
            /\ Has(target.arcs, a.id)
            /\ ArcJSON(a) # ArcJSON(target.arcs[Pos(target.arcs, a.id)])
    IN Conflicts("scene_modified", SelectSeq(source.scenes, SceneModified))
       \o Conflicts("scene_modified", SelectSeq(target.scenes, TargetModified))
       \o Conflicts("scene_deleted", SelectSeq(target.scenes, SceneDeleted))
       \o Conflicts("arc_modified", SelectSeq(source.arcs, ArcModified))

\* BranchManager.detectConflicts
detectConflicts(source, target) ==
    LET SceneModified(s) ==
            /\ Has(target.scenes, s.id)
            /\ SceneJSON(s) # SceneJSON(target.scenes[Pos(target.scenes, s.id)])
        SceneDeleted(s) == ~Has(source.scenes, s.id)
        ArcModified(a) ==
            /\ Has(target.arcs, a.id)
            /\ ArcJSON(a) # ArcJSON(target.arcs[Pos(target.arcs, a.id)])
    IN Conflicts("scene_modified", SelectSeq(source.scenes, SceneModified))
       \o Conflicts("scene_deleted", SelectSeq(target.scenes, SceneDeleted))
       \o Conflicts("arc_modified", SelectSeq(source.arcs, ArcModified))

\* BranchManager.createBranch
createBranch(name) ==
    /\ calls < MaxCalls
    /\ IF name = "main" \/ name \in DOMAIN branches
       THEN NoEffect(BranchOp("createBranch", FALSE, name, <<>>))
       ELSE /\ Commit(scenes, arcs, characters, snapshots,
                      [b \in DOMAIN branches \cup {name} |->
                          IF b = name
                          THEN [snapshot |-> createSnapshot, parent |-> currentBranch,
                                protected |-> FALSE]
                          ELSE branches[b]],
                      Heap)
            /\ lastStored' = [b \in DOMAIN branches \cup {name} |->
                                 IF b = name THEN SnapshotContent(createSnapshot)
                                 ELSE lastStored[b]]
            /\ Returns(BranchOp("createBranch", TRUE, name, <<>>))
            /\ UNCHANGED <<now, nextScene, nextArc, nextChar, nextSnap, maxSnapshots, currentBranch>>

\* BranchManager.switchBranch
switchBranch(name) ==
    /\ calls < MaxCalls
    /\ IF name \notin DOMAIN branches
       THEN NoEffect(BranchOp("switchBranch", FALSE, name, <<>>))
       ELSE LET l == loadSnapshot(branches[name].snapshot)
            IN /\ Commit(l.scenes, l.arcs, l.characters, snapshots, branches, l.heap)
               /\ currentBranch' = IF l.threw THEN currentBranch ELSE name
               /\ Returns(BranchOp("switchBranch", ~l.threw, name, <<>>))
               /\ UNCHANGED <<now, nextScene, nextArc, nextChar, nextSnap, maxSnapshots, lastStored>>

\* BranchManager.saveBranch
saveBranch ==
    /\ calls < MaxCalls
    /\ Commit(scenes, arcs, characters, snapshots,
              [branches EXCEPT ![currentBranch].snapshot = createSnapshot], Heap)
    /\ lastStored' = [lastStored EXCEPT ![currentBranch] = SnapshotContent(createSnapshot)]
    /\ Returns(BranchOp("saveBranch", TRUE, currentBranch, <<>>))
    /\ UNCHANGED <<now, nextScene, nextArc, nextChar, nextSnap, maxSnapshots, currentBranch>>

\* a merge that goes on whatever was detected
mergeNeverAborts(conflicts) == FALSE

\* the `if (conflicts.length > 0)` test of mergeBranch
mergeAborts(conflicts) == Len(conflicts) > 0

\* the merged snapshot of mergeBranch: the source's scenes and arcs
mergedSnapshot(source, target) ==
    [scenes |-> source.scenes, arcs |-> source.arcs, characters |-> <<>>]

\* BranchManager.mergeBranch
mergeBranch(sourceBranchName) ==
    /\ calls < MaxCalls
    /\ IF sourceBranchName \notin DOMAIN branches
       THEN NoEffect(BranchOp("mergeBranch", FALSE, sourceBranchName, <<>>))
       ELSE LET source == branches[sourceBranchName].snapshot
                target == branches[currentBranch].snapshot
                conflicts == detectConflicts(source, target)
                l == loadSnapshot(mergedSnapshot(source, target))
                saved == [scenes |-> l.scenes, arcs |-> l.arcs, characters |-> l.characters]
            IN IF mergeAborts(conflicts)
               THEN NoEffect(BranchOp("mergeBranch", FALSE, sourceBranchName, conflicts))
               ELSE /\ Commit(l.scenes, l.arcs, l.characters, snapshots,
                              [branches EXCEPT ![currentBranch].snapshot = saved], l.heap)
                    /\ lastStored' = [lastStored EXCEPT ![currentBranch] = SnapshotContent(saved)]
                    /\ Returns(BranchOp("mergeBranch", TRUE, sourceBranchName, <<>>))
                    /\ UNCHANGED <<now, nextScene, nextArc, nextChar, nextSnap, maxSnapshots, currentBranch>>

\* a deleteBranch that forgets the checked-out branch
deleteRefusedUnlessCurrent(name) == name \notin DOMAIN branches \/ branches[name].protected

\* a deleteBranch that forgets the protection
deleteRefusedUnlessProtected(name) == name \notin DOMAIN branches \/ name = currentBranch

\* the three throws of deleteBranch: unknown, protected, checked out
deleteRefused(name) ==
    name \notin DOMAIN branches \/ branches[name].protected \/ name = currentBranch

\* BranchManager.deleteBranch
deleteBranch(name) ==
    /\ calls < MaxCalls
    /\ IF deleteRefused(name)
       THEN NoEffect(BranchOp("deleteBranch", FALSE, name, <<>>))
       ELSE /\ Commit(scenes, arcs, characters, snapshots,
                      [b \in DOMAIN branches \ {name} |-> branches[b]], Heap)
            /\ lastStored' = [b \in DOMAIN branches \ {name} |-> lastStored[b]]
            /\ Returns(BranchOp("deleteBranch", TRUE, name, <<>>))
            /\ UNCHANGED <<now, nextScene, nextArc, nextChar, nextSnap, maxSnapshots, currentBranch>>

\* ------------------------------------------------------ Coherence Solver
\* Array.prototype.slice(start) with a 0-based start; a negative start counts
\* from the end
Slice(s, start) ==
    LET n == Len(s)
        b == IF start < 0 THEN (IF n + start < 0 THEN 0 ELSE n + start) ELSE start
    IN SubSeq(s, b + 1, n)

\* visited.add and recursionStack.add on entering a scene
Enter(st, sceneId) ==
    [visited |-> st.visited \cup {sceneId}, recursionStack |-> st.recursionStack \cup {sceneId}]

\* recursionStack.delete on leaving a scene
Leave(st, sceneId) == [st EXCEPT !.recursionStack = @ \ {sceneId}]

\* a detection that takes every visited scene for one on the current path
OnStackAnyVisited(st, linkedSceneId) == linkedSceneId \in st.visited

\* the `else if (this.recursionStack.has(linkedSceneId))` test
OnStack(st, linkedSceneId) == linkedSceneId \in st.recursionStack

\* CoherenceSolver.dfsDetectCycle over the live store; st holds the solver's
\* visited and recursionStack sets, and the result is the returned cycle with
\* the sets as the call leaves them.  dfsLinks is its loop over scene.links.
RECURSIVE dfsDetectCycle(_, _, _)
RECURSIVE dfsLinks(_, _, _, _, _)
dfsDetectCycle(sceneId, path, st) ==
    IF ~Has(scenes, sceneId)
    THEN [cycle |-> <<>>, st |-> Leave(Enter(st, sceneId), sceneId)]
    ELSE dfsLinks(sceneId, arr[scenes[Pos(scenes, sceneId)].links], 1,
                  Append(path, sceneId), Enter(st, sceneId))

dfsLinks(sceneId, links, i, path, st) ==
    IF i > Len(links) THEN [cycle |-> <<>>, st |-> Leave(st, sceneId)]
    ELSE IF links[i] \notin st.visited
    THEN LET r == dfsDetectCycle(links[i], path, st)
         IN IF Len(r.cycle) > 0 THEN [cycle |-> r.cycle, st |-> Leave(r.st, sceneId)]
            ELSE dfsLinks(sceneId, links, i + 1, path, r.st)
    ELSE IF OnStack(st, links[i])
    THEN [cycle |-> Append(Slice(path, IndexOf(path, links[i]) - 1), links[i]),
          st |-> Leave(st, sceneId)]
    ELSE dfsLinks(sceneId, links, i + 1, path, st)

\* the loop of detectCircularDependencies over getAllScenes(): the cycles
\* found, and the two sets as the loop leaves them
RECURSIVE detectLoop(_, _, _)
detectLoop(i, st, cycles) ==
    IF i > Len(scenes) THEN [cycles |-> cycles, st |-> st]
    ELSE IF scenes[i].id \in st.visited THEN detectLoop(i + 1, st, cycles)
    ELSE LET r == dfsDetectCycle(scenes[i].id, <<>>, st)
         IN detectLoop(i + 1, r.st, IF Len(r.cycle) > 0 THEN Append(cycles, r.cycle) ELSE cycles)

\* new CoherenceSolver(), and the solver after reset()
NewSolver == [visited |-> {}, recursionStack |-> {}]

\* a detection that goes on from the sets the last call left
detectCarrying(st) == detectLoop(1, st, <<>>)

\* CoherenceSolver.detectCircularDependencies on a solver whose sets are st:
\* both fields are assigned a new Set first
detect(st) == detectLoop(1, NewSolver, <<>>)

detectCircularDependencies == detect(solver).cycles

\* the concatenation of a sequence of sequences
RECURSIVE Flatten(_)
Flatten(ss) == IF ss = <<>> THEN <<>> ELSE Head(ss) \o Flatten(Tail(ss))

\* a solver that finds no broken link
detectNoBrokenLinks == <<>>

\* CoherenceSolver.detectBrokenLinks: the links whose target getScene misses
detectBrokenLinks ==
    Flatten([i \in DOMAIN scenes |->
        LET Missing(linkId) == ~Has(scenes, linkId)
            broken == SelectSeq(arr[scenes[i].links], Missing)
        IN [k \in DOMAIN broken |-> [sceneId |-> scenes[i].id, brokenLinkId |-> broken[k]]]])

\* CoherenceSolver.detectOrphanedScenes: the scenes no arc lists
detectOrphanedScenes ==
    LET scenesInArcs == UNION {Range(arr[arcs[i].scenes]) : i \in DOMAIN arcs}
        Orphaned(s) == s.id \notin scenesInArcs
        orphaned == SelectSeq(scenes, Orphaned)
    IN [k \in DOMAIN orphaned |-> orphaned[k].id]

\* the `arcs.filter(arc => arc.scenes.length === 0)` of checkCoherence
emptyArcs ==
    LET Empty(a) == Len(arr[a.scenes]) = 0
    IN SelectSeq(arcs, Empty)

\* a CoherenceIssue (the message is left out; kind tells the messages apart)
Issue(type, kind, affectedScenes, affectedCharacters) ==
    [type |-> type, severity |-> "error", kind |-> kind,
     affectedScenes |-> affectedScenes, affectedCharacters |-> affectedCharacters]

\* CoherenceSolver.detectCharacterInconsistencies: the loop over the characters
\* (presence entries, then relationships), then the loop over the scenes
detectCharacterInconsistencies ==
    LET OfPresence(c, sceneId) ==
            IF ~Has(scenes, sceneId)
            THEN <<Issue("character_inconsistency", "missing_scene", <<sceneId>>, <<c.id>>)>>
            ELSE IF ~Includes(arr[scenes[Pos(scenes, sceneId)].characterPresence], c.id)
            THEN <<Issue("character_inconsistency", "scene_lacks_character", <<sceneId>>, <<c.id>>)>>
            ELSE <<>>
        OfRelationship(c, r) ==
            IF ~Has(characters, r.characterId)
            THEN <<Issue("character_inconsistency", "missing_related", <<>>, <<c.id, r.characterId>>)>>
            ELSE <<>>
        OfCharacter(c) ==
            Flatten([k \in DOMAIN arr[c.scenePresence] |-> OfPresence(c, arr[c.scenePresence][k])])
            \o Flatten([k \in DOMAIN c.relationships |-> OfRelationship(c, c.relationships[k])])
        OfListed(s, characterId) ==
            IF ~Has(characters, characterId)
            THEN <<Issue("character_inconsistency", "missing_character", <<s.id>>, <<characterId>>)>>
            ELSE IF ~Includes(arr[characters[Pos(characters, characterId)].scenePresence], s.id)
            THEN <<Issue("character_inconsistency", "character_lacks_scene", <<s.id>>, <<characterId>>)>>
            ELSE <<>>
        OfScene(s) ==
            Flatten([k \in DOMAIN arr[s.characterPresence] |->
                        OfListed(s, arr[s.characterPresence][k])])
    IN Flatten([i \in DOMAIN characters |-> OfCharacter(characters[i])])
       \o Flatten([i \in DOMAIN scenes |-> OfScene(scenes[i])])

\* CoherenceSolver.checkCoherence: the report without its stats, for the
\* cycles that its detectCircularDependencies call returned
coherenceReportOf(cycles) ==
    LET brokenLinks == detectBrokenLinks
        issues ==
            [k \in DOMAIN cycles |-> Issue("circular_dependency", "cycle", cycles[k], <<>>)]
            \o [k \in DOMAIN brokenLinks |->
                   Issue("broken_link", "broken_link",
                         <<brokenLinks[k].sceneId, brokenLinks[k].brokenLinkId>>, <<>>)]
            \o detectCharacterInconsistencies
        warnings ==
            (IF Len(detectOrphanedScenes) > 0 THEN <<"orphaned_scenes">> ELSE <<>>)
            \o (IF Len(emptyArcs) > 0 THEN <<"empty_arcs">> ELSE <<>>)
        IsError(i) == i.severity = "error"
    IN [coherent |-> Len(SelectSeq(issues, IsError)) = 0, issues |-> issues,
        warnings |-> warnings]

coherenceReport == coherenceReportOf(detectCircularDependencies)

\* A call of the solver.  It reads the store and writes its own two sets;
\* after is the number of calls the run then counts.
SolverCall(op, st, after) ==
    /\ calls < MaxCalls
    /\ calls' = after
    /\ lastOp' = op
    /\ solver' = st
    /\ UNCHANGED <<scenes, arcs, characters, arr, meta, flow, snapshots, branches,
                   now, nextScene, nextArc, nextChar, nextSnap, maxSnapshots, currentBranch,
                   lastStored>>
    /\ UNCHANGED mirrorVars
    /\ UNCHANGED timelineVars
    /\ UNCHANGED <<shared, activeMonitors, timers, syncs, microtasks>>

\* solver.checkCoherence(graph) on the live store
checkCoherenceThen(after) ==
    SolverCall([Op("checkCoherence", TRUE, 0) EXCEPT !.report = coherenceReport],
               detect(solver).st, after)

\* solver.detectCircularDependencies(graph) on the live store
checkCircularDependenciesThen(after) ==
    SolverCall([Op("detectCircularDependencies", TRUE, 0) EXCEPT
                   !.cycles = detectCircularDependencies],
               detect(solver).st, after)

\* CoherenceSolver.reset()
reset == SolverCall(Op("reset", TRUE, 0), NewSolver, calls + 1)

\* the store is as it was before the call, so every continuation is explored
\* from there already and the run is not followed further
checkCoherence == checkCoherenceThen(MaxCalls)

checkCircularDependencies == checkCircularDependenciesThen(MaxCalls)

\* --------------------------------------------------------- specification
\* BranchManager constructor: the protected main branch with an empty snapshot
\* (it has no characters key, which loadSnapshot treats like an empty list)
EmptySnapshot == [scenes |-> <<>>, arcs |-> <<>>, characters |-> <<>>]

\* -------------------------------------------------------- Mirror Sidecar
\* The sidecar reads two GraphDB instances and writes the second one.  Both
\* are held by value: the three Maps in insertion order, each entity with
\* its fields and the content of its arrays.  The one array that two
\* entities of the two stores come to share and that is spliced afterwards
\* in the same call is tracked in `shared` below.
EmptyGraph == [scenes |-> <<>>, arcs |-> <<>>, characters |-> <<>>]

NoDrift == [driftScore |-> 0, differences |-> <<>>]

NoChanges == [scenesAdded |-> 0, scenesRemoved |-> 0, scenesModified |-> 0,
              arcsModified |-> 0, charactersModified |-> 0]

NoSync == [success |-> TRUE, conflicts |-> <<>>, changes |-> NoChanges,
           driftBefore |-> 0, driftAfter |-> 0]

\* Map.get on a Map that has the key
Get(m, id) == m[Pos(m, id)]

\* Map.set on a Map that has the key
Put(m, rec) == [m EXCEPT ![Pos(m, rec.id)] = rec]

\* MirrorSidecar.compareScenes
compareScenes(sceneA, sceneB) ==
    LET Field(name, differs) == IF differs THEN <<name>> ELSE <<>>
        differences ==
            Field("title", sceneA.title # sceneB.title)
            \o Field("premise", sceneA.premise # sceneB.premise)
            \o Field("why", sceneA.why # sceneB.why)
            \o Field("how", sceneA.how # sceneB.how)
            \o Field("cost", sceneA.cost # sceneB.cost)
            \o Field("links", sceneA.links # sceneB.links)
            \o Field("characters", sceneA.characterPresence # sceneB.characterPresence)
    IN [isDifferent |-> Len(differences) > 0,
        severity |-> IF Len(differences) > 3 THEN "major"
                     ELSE IF Len(differences) > 1 THEN "moderate" ELSE "minor",
        differences |-> differences]

\* MirrorSidecar.compareCharacters
compareCharacters(charA, charB) ==
    (IF charA.name # charB.name THEN 2 ELSE 0)
    + (IF charA.description # charB.description THEN 1 ELSE 0)
    + (IF charA.role # charB.role THEN 1 ELSE 0)
    + (IF charA.traits # charB.traits THEN 1 ELSE 0)
    + (IF charA.relationships # charB.relationships THEN 2 ELSE 0)
    + (IF charA.scenePresence # charB.scenePresence THEN 1 ELSE 0)

\* a DriftDifference whose push adds 1 to totalDrift whatever its kind
DifferenceOfOne(type, severity, id, weight) ==
    [type |-> type, severity |-> severity, affectedIds |-> <<id>>, weight |-> 1]

\* a DriftDifference, with what its push added to totalDrift
Difference(type, severity, id, weight) ==
    [type |-> type, severity |-> severity, affectedIds |-> <<id>>, weight |-> weight]

\* the totalDrift increment of a modified scene
sceneWeight(severity) ==
    IF severity = "major" THEN 3 ELSE IF severity = "moderate" THEN 2 ELSE 1

RECURSIVE totalDrift(_)
totalDrift(differences) ==
    IF differences = <<>> THEN 0
    ELSE Head(differences).weight + totalDrift(Tail(differences))

\* a score left as the sum
sumUncapped(total) == total

\* Math.min(100, totalDrift)
normalize(total) == IF total < 100 THEN total ELSE 100

\* MirrorSidecar.calculateDrift: the MirrorDrift it returns
calculateDrift(A, B) ==
    LET SceneOnlyA(s) == ~Has(B.scenes, s.id)
        SceneOnlyB(s) == ~Has(A.scenes, s.id)
        SceneModified(s) ==
            Has(B.scenes, s.id) /\ compareScenes(s, Get(B.scenes, s.id)).isDifferent
        ArcChanged(a) ==
            \/ ~Has(B.arcs, a.id)
            \/ a.intent # Get(B.arcs, a.id).intent
            \/ a.scenes # Get(B.arcs, a.id).scenes
        ArcOnlyB(a) == ~Has(A.arcs, a.id)
        CharChanged(c) ==
            ~Has(B.characters, c.id) \/ compareCharacters(c, Get(B.characters, c.id)) > 0
        CharOnlyB(c) == ~Has(A.characters, c.id)
        removed == SelectSeq(A.scenes, SceneOnlyA)
        added == SelectSeq(B.scenes, SceneOnlyB)
        modified == SelectSeq(A.scenes, SceneModified)
        arcsA == SelectSeq(A.arcs, ArcChanged)
        arcsB == SelectSeq(B.arcs, ArcOnlyB)
        charsA == SelectSeq(A.characters, CharChanged)
        charsB == SelectSeq(B.characters, CharOnlyB)
        differences ==
            [i \in DOMAIN removed |->
                Difference("scene_removed", "moderate", removed[i].id, 5)]
            \o [i \in DOMAIN added |->
                Difference("scene_added", "moderate", added[i].id, 5)]
            \o [i \in DOMAIN modified |->
                LET severity ==
                        compareScenes(modified[i], Get(B.scenes, modified[i].id)).severity
                IN Difference("scene_modified", severity, modified[i].id,
                              sceneWeight(severity))]
            \o [i \in DOMAIN arcsA |->
                Difference("arc_changed", "moderate", arcsA[i].id,
                           IF ~Has(B.arcs, arcsA[i].id) THEN 5 ELSE 3)]
            \o [i \in DOMAIN arcsB |->
                Difference("arc_changed", "moderate", arcsB[i].id, 5)]
            \o [i \in DOMAIN charsA |->
                IF ~Has(B.characters, charsA[i].id)
                THEN Difference("character_changed", "moderate", charsA[i].id, 4)
                ELSE LET charDrift ==
                             compareCharacters(charsA[i], Get(B.characters, charsA[i].id))
                     IN Difference("character_changed",
                                   IF charDrift > 2 THEN "major" ELSE "minor",
                                   charsA[i].id, charDrift)]
            \o [i \in DOMAIN charsB |->
                Difference("character_changed", "moderate", charsB[i].id, 4)]
    IN [driftScore |-> normalize(totalDrift(differences)), differences |-> differences]

\* a MirrorConflict: its id is the prefix and the entity
MirrorConflict(prefix, type, id) ==
    [id |-> <<prefix, id>>, type |-> type, resolved |-> FALSE]

\* the clock read by new Date() during a synchronize: after every timestamp
\* the two stores hold
SyncTime == MaxTime + 1

\* Scene.validate, Arc.validate and Character.validate on an entity
ValidScene(s) == SceneValid(s.title, s.premise, s.cost)
ValidArc(a) == ArcValid(a.intent, a.scenes)
ValidCharacter(c) == CharacterValid(c.name, c.relationships) /\ c.description # ""

\* An array that an entity of the source and the entity of the same identifier
\* of the target both hold: toJSON hands out the entity's own arrays, and
\* fromJSON and update assign them.  What one store pushes into or splices out
\* of such an array, the other store's entity shows as well.
Slot(kind, id, field) == <<kind, id, field>>

SceneSlots(id) == {Slot("scenes", id, "links"), Slot("scenes", id, "characterPresence")}
ArcSlots(id) == {Slot("arcs", id, "scenes"), Slot("arcs", id, "aridFlow")}
CharacterSlots(id) ==
    {Slot("characters", id, "traits"), Slot("characters", id, "relationships"),
     Slot("characters", id, "scenePresence")}

\* What a synchronize call holds between two differences: both stores, the
\* arrays the two stores share, the conflicts and the counters.  Each sync* step gives the next such record and whether
\* it threw into the catch of synchronize.
Step(st, threw) == [st |-> st, threw |-> threw]

Conflict(st, c) == Step([st EXCEPT !.conflicts = Append(@, c)], FALSE)

\* GraphDB.addScene(Scene.fromJSON(scene.toJSON())): the new scene keeps the
\* arrays of the source's scene
addSceneToTarget(st, scene) ==
    IF Has(st.target.scenes, scene.id) \/ ~ValidScene(scene) THEN Step(st, TRUE)
    ELSE Step([st EXCEPT !.target.scenes = Append(@, scene),
                         !.shared = @ \cup SceneSlots(scene.id)], FALSE)

\* MirrorSidecar.syncSceneAddition
syncSceneAddition(st, diff) ==
    LET sceneId == diff.affectedIds[1]
    IN IF ~Has(st.source.scenes, sceneId) THEN Step(st, FALSE)
       ELSE IF Has(st.target.scenes, sceneId)
       THEN Conflict(st, MirrorConflict("scene-conflict", "scene_conflict", sceneId))
       ELSE addSceneToTarget(st, Get(st.source.scenes, sceneId))

\* indexOf and splice(index, 1)
Without(s, x) == IF Includes(s, x) THEN SpliceOut(s, IndexOf(s, x)) ELSE s

\* GraphDB.deleteScene on the target, entered with the scene in the store
deleteSceneFromTarget(st, sceneId) ==
    LET scene == Get(st.target.scenes, sceneId)
        StripArc(arc) ==
            IF Includes(arc.scenes, sceneId)
            THEN [arc EXCEPT !.scenes = Without(@, sceneId), !.updatedAt = SyncTime]
            ELSE arc
        StripCharacter(c) ==
            IF Includes(scene.characterPresence, c.id) /\ Includes(c.scenePresence, sceneId)
            THEN [c EXCEPT !.scenePresence = Without(@, sceneId), !.updatedAt = SyncTime]
            ELSE c
        StrippedArc(arc) ==
            IF Slot("arcs", arc.id, "scenes") \in st.shared
            THEN [arc EXCEPT !.scenes = Without(@, sceneId)]
            ELSE arc
        StrippedCharacter(c) ==
            IF /\ Slot("characters", c.id, "scenePresence") \in st.shared
               /\ Includes(scene.characterPresence, c.id)
            THEN [c EXCEPT !.scenePresence = Without(@, sceneId)]
            ELSE c
        ar == st.target.arcs
        ch == st.target.characters
        sa == st.source.arcs
        sch == st.source.characters
    IN [st EXCEPT
          !.target.arcs = [i \in DOMAIN ar |-> StripArc(ar[i])],
          !.target.characters = [i \in DOMAIN ch |-> StripCharacter(ch[i])],
          !.source.arcs = [i \in DOMAIN sa |-> StrippedArc(sa[i])],
          !.source.characters = [i \in DOMAIN sch |-> StrippedCharacter(sch[i])],
          !.target.scenes = MapDelete(@, sceneId),
          !.shared = @ \ SceneSlots(sceneId)]

\* a removal that does not look at the arcs of the target
syncSceneRemovalUnchecked(st, diff) ==
    LET sceneId == diff.affectedIds[1]
    IN IF ~Has(st.target.scenes, sceneId) THEN Step(st, FALSE)
       ELSE Step(deleteSceneFromTarget(st, sceneId), FALSE)

\* MirrorSidecar.syncSceneRemoval
syncSceneRemoval(st, diff) ==
    LET sceneId == diff.affectedIds[1]
        Lists(arc) == Includes(arc.scenes, sceneId)
    IN IF ~Has(st.target.scenes, sceneId) THEN Step(st, FALSE)
       ELSE IF Len(SelectSeq(st.target.arcs, Lists)) > 0
       THEN Conflict(st, MirrorConflict("scene-removal-conflict", "scene_conflict", sceneId))
       ELSE Step(deleteSceneFromTarget(st, sceneId), FALSE)

\* GraphDB.updateScene(sceneId, sourceScene.toJSON()): Scene.update, which
\* takes over the source's arrays, then validate
updateSceneFromSource(st, sceneId) ==
    LET data == Get(st.source.scenes, sceneId)
        scene == Get(st.target.scenes, sceneId)
        updated ==
            [scene EXCEPT
                !.title = IF data.title # "" THEN data.title ELSE @,
                !.premise = IF data.premise # "" THEN data.premise ELSE @,
                !.why = IF data.why # "" THEN data.why ELSE @,
                !.how = IF data.how # "" THEN data.how ELSE @,
                !.cost = data.cost,
                !.links = data.links,
                !.characterPresence = data.characterPresence,
                !.updatedAt = SyncTime]
    IN Step([st EXCEPT !.target.scenes = Put(@, updated),
                       !.shared = @ \cup SceneSlots(sceneId)],
            ~ValidScene(updated))

\* MirrorSidecar.syncSceneModification
syncSceneModification(st, diff) ==
    LET sceneId == diff.affectedIds[1]
    IN IF ~Has(st.source.scenes, sceneId) \/ ~Has(st.target.scenes, sceneId)
       THEN Step(st, FALSE)
       ELSE IF /\ Get(st.source.scenes, sceneId).updatedAt
                  > Get(st.target.scenes, sceneId).updatedAt
               /\ sidecar.conflictStrategy = "newest_wins"
       THEN updateSceneFromSource(st, sceneId)
       ELSE IF sidecar.conflictStrategy = "prefer_source"
       THEN updateSceneFromSource(st, sceneId)
       ELSE Conflict(st, MirrorConflict("scene-mod-conflict", "scene_conflict", sceneId))

\* GraphDB.addArc(Arc.fromJSON(sourceArc.toJSON()))
addArcToTarget(st, arc) ==
    IF Has(st.target.arcs, arc.id) \/ ~ValidArc(arc) THEN Step(st, TRUE)
    ELSE Step([st EXCEPT !.target.arcs = Append(@, arc),
                         !.shared = @ \cup IF arc.aridFlow = <<>>
                                           THEN {Slot("arcs", arc.id, "scenes")}
                                           ELSE ArcSlots(arc.id)], FALSE)

\* GraphDB.updateArc(arcId, sourceArc.toJSON()): the intent when it is not
\* empty, the scenes and the status, whose update stamps the arc, then
\* validate; the aridFlow is not taken
updateArcFromSource(st, arcId) ==
    LET data == Get(st.source.arcs, arcId)
        updated == [Get(st.target.arcs, arcId) EXCEPT
                       !.intent = IF data.intent # "" THEN data.intent ELSE @,
                       !.scenes = data.scenes,
                       !.updatedAt = SyncTime]
    IN Step([st EXCEPT !.target.arcs = Put(@, updated),
                       !.shared = @ \cup {Slot("arcs", arcId, "scenes")}],
            ~ValidArc(updated))

\* MirrorSidecar.syncArcChange
syncArcChange(st, diff) ==
    LET arcId == diff.affectedIds[1]
    IN IF ~Has(st.source.arcs, arcId)
       THEN Step([st EXCEPT !.target.arcs = MapDelete(@, arcId),
                            !.shared = @ \ ArcSlots(arcId)], FALSE)
       ELSE IF ~Has(st.target.arcs, arcId)
       THEN addArcToTarget(st, Get(st.source.arcs, arcId))
       ELSE IF sidecar.conflictStrategy = "prefer_source"
       THEN updateArcFromSource(st, arcId)
       ELSE Conflict(st, MirrorConflict("arc-conflict", "arc_conflict", arcId))

\* GraphDB.deleteCharacter on the target: Scene.removeCharacter splices the
\* scene's array, which the source's scene shares once updateScene or addScene
\* has handed it over; removeRelationship filters into a new array
deleteCharacterFromTarget(st, charId) ==
    IF ~Has(st.target.characters, charId) THEN st
    ELSE LET character == Get(st.target.characters, charId)
             Splice(s) ==
                 IF Includes(character.scenePresence, s.id)
                    /\ Includes(s.characterPresence, charId)
                 THEN [s EXCEPT !.characterPresence = Without(@, charId),
                                !.updatedAt = SyncTime]
                 ELSE s
             Spliced(s) ==
                 IF /\ Slot("scenes", s.id, "characterPresence") \in st.shared
                    /\ Has(st.target.scenes, s.id)
                 THEN [s EXCEPT !.characterPresence =
                          Splice(Get(st.target.scenes, s.id)).characterPresence]
                 ELSE s
             Named(r) == r.characterId # charId
             Filter(c) == [c EXCEPT !.relationships = SelectSeq(@, Named),
                                    !.updatedAt = SyncTime]
             sc == st.target.scenes
             ss == st.source.scenes
             ch == st.target.characters
         IN [st EXCEPT
               !.target.scenes = [i \in DOMAIN sc |-> Splice(sc[i])],
               !.source.scenes = [i \in DOMAIN ss |-> Spliced(ss[i])],
               !.target.characters =
                   MapDelete([i \in DOMAIN ch |-> Filter(ch[i])], charId),
               !.shared = {slot \in @ : ~(/\ slot[1] = "characters"
                                          /\ \/ slot[3] = "relationships"
                                             \/ slot[2] = charId)}]

\* GraphDB.addCharacter(Character.fromJSON(sourceChar.toJSON()))
addCharacterToTarget(st, character) ==
    IF Has(st.target.characters, character.id) \/ ~ValidCharacter(character)
    THEN Step(st, TRUE)
    ELSE Step([st EXCEPT !.target.characters = Append(@, character),
                         !.shared = @ \cup CharacterSlots(character.id)], FALSE)

\* GraphDB.updateCharacter(charId, sourceChar.toJSON()): Character.update,
\* then validate
updateCharacterFromSource(st, charId) ==
    LET data == Get(st.source.characters, charId)
        updated == [Get(st.target.characters, charId) EXCEPT
                       !.name = IF data.name # "" THEN data.name ELSE @,
                       !.description = IF data.description # "" THEN data.description ELSE @,
                       !.role = IF data.role # "" THEN data.role ELSE @,
                       !.traits = data.traits,
                       !.relationships = data.relationships,
                       !.scenePresence = data.scenePresence,
                       !.updatedAt = SyncTime]
    IN Step([st EXCEPT !.target.characters = Put(@, updated),
                       !.shared = @ \cup CharacterSlots(charId)],
            ~ValidCharacter(updated))

\* MirrorSidecar.syncCharacterChange
syncCharacterChange(st, diff) ==
    LET charId == diff.affectedIds[1]
    IN IF ~Has(st.source.characters, charId)
       THEN Step(deleteCharacterFromTarget(st, charId), FALSE)
       ELSE IF ~Has(st.target.characters, charId)
       THEN addCharacterToTarget(st, Get(st.source.characters, charId))
       ELSE IF sidecar.conflictStrategy = "prefer_source"
       THEN updateCharacterFromSource(st, charId)
       ELSE Conflict(st, MirrorConflict("char-conflict", "character_conflict", charId))

\* the switch of the loop of synchronize, up to the await
syncSwitch(st, diff) ==
    CASE diff.type = "scene_added" -> syncSceneAddition(st, diff)
      [] diff.type = "scene_removed" -> syncSceneRemoval(st, diff)
      [] diff.type = "scene_modified" -> syncSceneModification(st, diff)
      [] diff.type = "arc_changed" -> syncArcChange(st, diff)
      [] diff.type = "character_changed" -> syncCharacterChange(st, diff)

\* the counter after the await
counted(c, type) ==
    CASE type = "scene_added" -> [c EXCEPT !.scenesAdded = @ + 1]
      [] type = "scene_removed" -> [c EXCEPT !.scenesRemoved = @ + 1]
      [] type = "scene_modified" -> [c EXCEPT !.scenesModified = @ + 1]
      [] type = "arc_changed" -> [c EXCEPT !.arcsModified = @ + 1]
      [] type = "character_changed" -> [c EXCEPT !.charactersModified = @ + 1]

\* one turn of the loop of synchronize: the switch, the counter when the
\* step did not throw
syncDifference(st, diff) ==
    LET step == syncSwitch(st, diff)
    IN IF step.threw THEN step.st
       ELSE [step.st EXCEPT !.changes = counted(@, diff.type)]

RECURSIVE syncDifferences(_, _)
syncDifferences(st, differences) ==
    IF differences = <<>> THEN st
    ELSE syncDifferences(syncDifference(st, Head(differences)), Tail(differences))

\* the SyncReport that synchronize returns
SyncReport(conflicts, changes, driftBefore, driftAfter) ==
    LET Unresolved(c) == ~c.resolved
    IN [success |-> Len(SelectSeq(conflicts, Unresolved)) = 0,
        conflicts |-> conflicts,
        changes |-> changes,
        driftBefore |-> driftBefore.driftScore,
        driftAfter |-> driftAfter.driftScore]

\* MirrorSidecar.synchronize on two stores that hold the given arrays in
\* common: both stores after the call, its two drifts and its SyncReport
synchronizeFrom(sourceGraph, targetGraph, held) ==
    LET driftBefore == calculateDrift(sourceGraph, targetGraph)
        st == syncDifferences([source |-> sourceGraph, target |-> targetGraph,
                               shared |-> held, conflicts |-> <<>>, changes |-> NoChanges],
                              driftBefore.differences)
        driftAfter == calculateDrift(st.source, st.target)
    IN [source |-> st.source, target |-> st.target, shared |-> st.shared,
        drifts |-> <<driftBefore, driftAfter>>,
        report |-> SyncReport(st.conflicts, st.changes, driftBefore, driftAfter)]

\* MirrorSidecar.synchronize on the two stores as they are
synchronize(sourceGraph, targetGraph) == synchronizeFrom(sourceGraph, targetGraph, shared)

\* ------------------------------------------- the stores the sidecar is given
Strategies == {"manual", "prefer_source", "prefer_target", "newest_wins"}

BaseScene(id) ==
    [id |-> id, title |-> "T", premise |-> "X", why |-> "W", how |-> "H", cost |-> 1,
     links |-> <<>>, characterPresence |-> <<>>, updatedAt |-> 0]

\* scene 1 as createScene made it, after updates of one, two and four scalar
\* fields, with two characters added in either order, and with a link
SceneVariants ==
    {BaseScene(1),
     [BaseScene(1) EXCEPT !.premise = "Y", !.updatedAt = MaxTime],
     [BaseScene(1) EXCEPT !.premise = "Y", !.why = "V", !.updatedAt = MaxTime],
     [BaseScene(1) EXCEPT !.title = "U", !.premise = "Y", !.why = "V", !.how = "G"],
     [BaseScene(1) EXCEPT !.characterPresence = <<1, 2>>],
     [BaseScene(1) EXCEPT !.characterPresence = <<2, 1>>],
     [BaseScene(1) EXCEPT !.links = <<2>>, !.cost = 2]}

\* the scenes first..last as createScene made them
RECURSIVE BaseScenes(_, _)
BaseScenes(first, last) ==
    IF first > last THEN <<>> ELSE <<BaseScene(first)>> \o BaseScenes(first + 1, last)

\* arc 1 after createArc and addSceneToArc, with another intent, without a
\* scene, and with an A.R.I.D. flow
BaseArc == [id |-> 1, intent |-> "I", scenes |-> <<1>>, aridFlow |-> <<>>, updatedAt |-> 0]

ArcVariants ==
    {BaseArc,
     [BaseArc EXCEPT !.intent = "J", !.updatedAt = MaxTime],
     [BaseArc EXCEPT !.scenes = <<>>],
     [BaseArc EXCEPT !.aridFlow = <<[EmptyFlow EXCEPT !.anchor = <<1>>]>>,
                     !.updatedAt = MaxTime]}

BaseCharacter(id) ==
    [id |-> id, name |-> "N", description |-> "D", role |-> "other", traits |-> <<>>,
     relationships |-> <<>>, scenePresence |-> <<>>, updatedAt |-> 0]

\* character 1 as createCharacter made it, renamed, changed in every field,
\* present in scene 1, and present in two scenes added in either order
CharacterVariants ==
    {BaseCharacter(1),
     [BaseCharacter(1) EXCEPT !.name = "M", !.updatedAt = MaxTime],
     [BaseCharacter(1) EXCEPT !.name = "M", !.description = "E", !.role = "hero",
                              !.traits = <<"brave">>,
                              !.relationships = <<[characterId |-> 2, strength |-> 5]>>,
                              !.scenePresence = <<1>>, !.updatedAt = MaxTime],
     [BaseCharacter(1) EXCEPT !.scenePresence = <<1>>],
     [BaseCharacter(1) EXCEPT !.scenePresence = <<1, 2>>],
     [BaseCharacter(1) EXCEPT !.scenePresence = <<2, 1>>]}

\* the other characters: each absent, as created, or with a relationship to
\* character 1
RECURSIVE OtherCharacters(_, _)
OtherCharacters(first, last) ==
    IF first > last THEN {<<>>}
    ELSE {one \o rest :
            one \in {<<>>, <<BaseCharacter(first)>>,
                     <<[BaseCharacter(first) EXCEPT
                          !.relationships = <<[characterId |-> 1, strength |-> 5]>>]>>},
            rest \in OtherCharacters(first + 1, last)}

Optional(S) == {<<>>} \cup {<<x>> : x \in S}

MirrorStores ==
    {[scenes |-> one \o rest, arcs |-> <<>>, characters |-> <<>>] :
        one \in Optional(SceneVariants),
        rest \in {<<>>, BaseScenes(2, MaxMirrorScenes)}}
    \cup {[scenes |-> rest \o one, arcs |-> <<>>, characters |-> <<>>] :
        one \in Optional(SceneVariants),
        rest \in {<<>>, BaseScenes(2, MaxMirrorScenes)}}
    \cup {[scenes |-> sc, arcs |-> <<a>>, characters |-> <<>>] :
        sc \in Optional({BaseScene(1)}), a \in ArcVariants}
    \cup {[scenes |-> sc, arcs |-> <<>>, characters |-> one \o rest] :
        sc \in Optional({[BaseScene(1) EXCEPT !.characterPresence = <<1, 2>>]}),
        one \in Optional(CharacterVariants),
        rest \in OtherCharacters(2, MaxMirrorChars)}

\* the same stores, and one with scenes enough for a sum above 100
DriftStores ==
    MirrorStores
    \cup {[scenes |-> BaseScenes(1, CapScenes), arcs |-> <<>>, characters |-> <<>>]}

NoMirror == [op |-> "none", drift |-> NoDrift, report |-> NoSync]

\* no sidecar call was made: the variables of the sidecar at rest
MirrorIdle ==
    /\ graphA = EmptyGraph /\ graphB = EmptyGraph
    /\ sidecar = [conflictStrategy |-> "manual", autoSyncThreshold |-> 30,
                  driftHistory |-> <<>>]
    /\ lastMirror = NoMirror

\* the TemporalReport, and what the last call of the TimelineManager was
NoTemporalReport ==
    [consistent |-> TRUE, issues |-> <<>>, warnings |-> <<>>,
     stats |-> [timelinesChecked |-> 0, timePointsChecked |-> 0, scenesInTimelines |-> 0]]

TimelineOp(name, ok, id) == [op |-> name, ok |-> ok, id |-> id, report |-> NoTemporalReport]

\* no call was made on the TimelineManager
TimelineIdle ==
    /\ timelines = <<>>
    /\ sceneToTimeline = [s \in 1..MaxMirrorScenes |-> <<>>]
    /\ lastTimeline = TimelineOp("none", TRUE, 0)
    /\ timelineCalls = 0

\* the two stores share nothing, no monitor runs and no synchronize was called
RuntimeIdle ==
    /\ shared = {}
    /\ activeMonitors = <<>>
    /\ timers = <<>>
    /\ syncs = <<>>
    /\ microtasks = <<>>
    /\ solver = NewSolver

\* no call was made on the store, the snapshots and the branches
StoreIdle ==
    /\ scenes = <<>> /\ arcs = <<>> /\ characters = <<>>
    /\ arr = [x \in ArrAddr |-> <<>>]
    /\ meta = [x \in MetaAddr |-> 0]
    /\ flow = [x \in FlowAddr |-> EmptyFlow]
    /\ now = 0
    /\ nextScene = 1 /\ nextArc = 1 /\ nextChar = 1
    /\ snapshots = <<>> /\ nextSnap = 1 /\ maxSnapshots = DefaultMaxSnapshots
    /\ branches = [b \in {"main"} |->
                      [snapshot |-> EmptySnapshot, parent |-> "", protected |-> TRUE]]
    /\ currentBranch = "main"
    /\ lastStored = [b \in {"main"} |-> EmptySnapshot]
    /\ lastOp = Op("init", TRUE, 0)
    /\ calls = 0

\* sidecar.calculateDrift(graphA, graphB, 'branchA', 'branchB')
CalculateDrift ==
    /\ lastMirror.op = "none"
    /\ LET drift == calculateDrift(graphA, graphB)
       IN /\ lastMirror' = [op |-> "calculateDrift", drift |-> drift, report |-> NoSync]
          /\ sidecar' = [sidecar EXCEPT !.driftHistory = Append(@, drift)]
    /\ UNCHANGED <<graphA, graphB>>
    /\ UNCHANGED storeVars
    /\ UNCHANGED timelineVars
    /\ UNCHANGED runtimeVars

\* await sidecar.synchronize(graphA, graphB, 'branchA', 'branchB'), run to
\* its end without another call in between
Synchronize ==
    /\ lastMirror.op = "none"
    /\ \E sync \in {synchronize(graphA, graphB)} :
          /\ graphA' = sync.source
          /\ graphB' = sync.target
          /\ lastMirror' = [op |-> "synchronize", drift |-> sync.drifts[1],
                            report |-> sync.report]
          /\ sidecar' = [sidecar EXCEPT !.driftHistory = @ \o sync.drifts]
          /\ shared' = sync.shared
    /\ UNCHANGED storeVars
    /\ UNCHANGED timelineVars
    /\ UNCHANGED <<activeMonitors, timers, syncs, microtasks, solver>>

\* a new sidecar with one of the strategies, and two stores
InitSidecar(stores, strategies) ==
    /\ graphA \in stores /\ graphB \in stores
    /\ sidecar \in {[conflictStrategy |-> s, autoSyncThreshold |-> 30,
                  driftHistory |-> <<>>] : s \in strategies}
    /\ lastMirror = NoMirror
    /\ scenes = <<>> /\ arcs = <<>> /\ characters = <<>>
    /\ arr = [x \in ArrAddr |-> <<>>]
    /\ meta = [x \in MetaAddr |-> 0]
    /\ flow = [x \in FlowAddr |-> EmptyFlow]
    /\ now = 0
    /\ nextScene = 1 /\ nextArc = 1 /\ nextChar = 1
    /\ snapshots = <<>> /\ nextSnap = 1 /\ maxSnapshots = DefaultMaxSnapshots
    /\ branches = [b \in {"main"} |->
                      [snapshot |-> EmptySnapshot, parent |-> "", protected |-> TRUE]]
    /\ currentBranch = "main"
    /\ lastStored = [b \in {"main"} |-> EmptySnapshot]
    /\ lastOp = Op("init", TRUE, 0)
    /\ calls = 0
    /\ TimelineIdle
    /\ RuntimeIdle

InitMirror == InitSidecar(MirrorStores, Strategies)

MirrorNext == CalculateDrift \/ Synchronize

SpecMirror == InitMirror /\ [][MirrorNext]_vars

\* ------------------------------------ the two stores after a synchronize
\* The store a later call is made on, and the other one
Sides == {"source", "target"}
GraphOf(side) == IF side = "source" THEN graphA ELSE graphB

\* the other store's entity shows the array of the entity that was changed
\* when the two entities hold the same array
Aliased(other, changed, kind, id, field) ==
    IF Slot(kind, id, field) \in shared /\ Has(other[kind], id) /\ Has(changed[kind], id)
    THEN [other EXCEPT ![kind] =
             Put(@, [Get(other[kind], id) EXCEPT ![field] = Get(changed[kind], id)[field]])]
    ELSE other

\* a call on one store has returned: the two stores after it
Mutated(name, side, changed, other) ==
    /\ graphA' = IF side = "source" THEN changed ELSE other
    /\ graphB' = IF side = "source" THEN other ELSE changed
    /\ lastMirror' = [lastMirror EXCEPT !.op = name]
    /\ UNCHANGED <<sidecar, shared, activeMonitors, timers, syncs, microtasks, solver>>
    /\ UNCHANGED storeVars
    /\ UNCHANGED timelineVars

\* graph.getScene(sceneId).addLink(targetSceneId) after the synchronize
addLinkIn(side, sceneId, targetSceneId) ==
    /\ lastMirror.op = "synchronize"
    /\ Has(GraphOf(side).scenes, sceneId)
    /\ ~Includes(Get(GraphOf(side).scenes, sceneId).links, targetSceneId)
    /\ LET scene == Get(GraphOf(side).scenes, sceneId)
           changed == [GraphOf(side) EXCEPT !.scenes =
                          Put(@, [scene EXCEPT !.links = Append(@, targetSceneId),
                                               !.updatedAt = SyncTime])]
           other == GraphOf(CHOOSE o \in Sides : o # side)
       IN Mutated("addLink", side, changed,
                  Aliased(other, changed, "scenes", sceneId, "links"))

\* graph.addScene(scene) on one of the two stores, with a valid scene that
\* holds arrays of its own; a call with a stored identifier throws
addSceneOn(side, sceneId) ==
    /\ ~Has(GraphOf(side).scenes, sceneId)
    /\ ValidScene(BaseScene(sceneId))
    /\ Mutated("addScene", side,
               [GraphOf(side) EXCEPT !.scenes = Append(@, BaseScene(sceneId))],
               GraphOf(CHOOSE o \in Sides : o # side))

\* graph.addSceneToArc(arcId, sceneId) on one of the two stores
addSceneToArcOn(side, arcId, sceneId) ==
    /\ Has(GraphOf(side).arcs, arcId)
    /\ Has(GraphOf(side).scenes, sceneId)
    /\ ~Includes(Get(GraphOf(side).arcs, arcId).scenes, sceneId)
    /\ LET arc == Get(GraphOf(side).arcs, arcId)
           changed == [GraphOf(side) EXCEPT !.arcs =
                          Put(@, [arc EXCEPT !.scenes = Append(@, sceneId),
                                             !.updatedAt = SyncTime])]
           other == GraphOf(CHOOSE o \in Sides : o # side)
       IN Mutated("addSceneToArc", side, changed,
                  Aliased(other, changed, "arcs", arcId, "scenes"))

\* graph.addSceneToArc(arcId, sceneId) after the synchronize
addSceneToArcIn(side, arcId, sceneId) ==
    /\ lastMirror.op = "synchronize"
    /\ addSceneToArcOn(side, arcId, sceneId)

\* graph.addCharacterToScene(characterId, sceneId) after the synchronize
addCharacterToSceneIn(side, characterId, sceneId) ==
    /\ lastMirror.op = "synchronize"
    /\ Has(GraphOf(side).characters, characterId)
    /\ Has(GraphOf(side).scenes, sceneId)
    /\ LET character == Get(GraphOf(side).characters, characterId)
           scene == Get(GraphOf(side).scenes, sceneId)
           present == IF Includes(character.scenePresence, sceneId) THEN character
                      ELSE [character EXCEPT !.scenePresence = Append(@, sceneId),
                                             !.updatedAt = SyncTime]
           holding == IF Includes(scene.characterPresence, characterId) THEN scene
                      ELSE [scene EXCEPT !.characterPresence = Append(@, characterId),
                                         !.updatedAt = SyncTime]
           changed == [GraphOf(side) EXCEPT !.characters = Put(@, present),
                                            !.scenes = Put(@, holding)]
           other == GraphOf(CHOOSE o \in Sides : o # side)
       IN Mutated("addCharacterToScene", side, changed,
                  Aliased(Aliased(other, changed, "characters", characterId, "scenePresence"),
                          changed, "scenes", sceneId, "characterPresence"))

ShareNext ==
    \/ Synchronize
    \/ \E side \in Sides, s \in 1..MaxMirrorScenes, t \in 1..MaxMirrorScenes :
          addLinkIn(side, s, t)
    \/ \E side \in Sides, s \in 1..MaxMirrorScenes : addSceneToArcIn(side, 1, s)
    \/ \E side \in Sides, c \in 1..MaxMirrorChars, s \in 1..MaxMirrorScenes :
          addCharacterToSceneIn(side, c, s)

SpecShare == InitMirror /\ [][ShareNext]_vars

\* the drift of any two stores, under the default strategy
InitDrift == InitSidecar(DriftStores, {"manual"})

DriftNext == CalculateDrift

SpecDrift == InitDrift /\ [][DriftNext]_vars

\* ------------------------------------- synchronize as the runtime runs it
\* synchronize is an async function.  A call runs at once up to its first
\* await: calculateDrift, and the switch for the first difference.  There it is
\* suspended and queued behind the calls suspended before it; when its turn
\* comes it counts the difference, runs the switch for the next one and is
\* suspended again, or, after the last one, computes driftAfter and returns.
\* A call without differences returns at once.
\*
\* Each call keeps its locals in syncs: the differences still to do, the type
\* of the difference whose counter is due ("" after a throw into the catch),
\* conflicts, changes and driftBefore, then whether it has returned and its
\* report; and, for what was there when it was made, the stores and whether
\* another call was suspended.
MaxSyncs == 2      \* synchronize calls in one run
MaxTimers == 2     \* setInterval calls in one run
MaxTicks == 2      \* times one timer fires

\* the sidecar's Map, the runtime's timers and call queue, and the two stores
Runtime ==
    [source |-> graphA, target |-> graphB, shared |-> shared,
     history |-> sidecar.driftHistory, activeMonitors |-> activeMonitors,
     timers |-> timers, syncs |-> syncs, microtasks |-> microtasks]

Applied(rt) ==
    /\ graphA' = rt.source
    /\ graphB' = rt.target
    /\ shared' = rt.shared
    /\ sidecar' = [sidecar EXCEPT !.driftHistory = rt.history]
    /\ activeMonitors' = rt.activeMonitors
    /\ timers' = rt.timers
    /\ syncs' = rt.syncs
    /\ microtasks' = rt.microtasks
    /\ UNCHANGED solver
    /\ UNCHANGED storeVars
    /\ UNCHANGED timelineVars

Locals(rt, f) ==
    [source |-> rt.source, target |-> rt.target, shared |-> rt.shared,
     conflicts |-> f.conflicts, changes |-> f.changes]

\* MirrorSidecar.synchronize from the call to its first await or its return
called(rt) ==
    LET driftBefore == calculateDrift(rt.source, rt.target)
        differences == driftBefore.differences
        frame == [differences |-> differences, pending |-> "", conflicts |-> <<>>,
                  changes |-> NoChanges, driftBefore |-> driftBefore,
                  done |-> FALSE, report |-> NoSync,
                  before |-> [source |-> rt.source, target |-> rt.target,
                              shared |-> rt.shared],
                  overlaps |-> \E i \in DOMAIN rt.syncs : ~rt.syncs[i].done]
    IN IF differences = <<>>
       THEN [rt EXCEPT
               !.history = @ \o <<driftBefore, driftBefore>>,
               !.syncs = Append(@, [frame EXCEPT
                            !.done = TRUE,
                            !.report = SyncReport(<<>>, NoChanges, driftBefore, driftBefore)])]
       ELSE LET step == syncSwitch(Locals(rt, frame), Head(differences))
            IN [rt EXCEPT
                  !.source = step.st.source,
                  !.target = step.st.target,
                  !.shared = step.st.shared,
                  !.history = Append(@, driftBefore),
                  !.syncs = Append(@, [frame EXCEPT
                               !.differences = Tail(differences),
                               !.pending = IF step.threw THEN "" ELSE Head(differences).type,
                               !.conflicts = step.st.conflicts]),
                  !.microtasks = Append(@, Len(rt.syncs) + 1)]

\* the suspended call at the head of the queue, from its await to the next
\* one or to its return
resumed(rt) ==
    LET k == Head(rt.microtasks)
        f == [rt.syncs[k] EXCEPT
                !.changes = IF rt.syncs[k].pending = "" THEN @
                            ELSE counted(@, rt.syncs[k].pending)]
    IN IF f.differences = <<>>
       THEN LET driftAfter == calculateDrift(rt.source, rt.target)
            IN [rt EXCEPT
                  !.history = Append(@, driftAfter),
                  !.syncs[k] = [f EXCEPT
                      !.pending = "",
                      !.done = TRUE,
                      !.report = SyncReport(f.conflicts, f.changes, f.driftBefore,
                                            driftAfter)],
                  !.microtasks = Tail(@)]
       ELSE LET step == syncSwitch(Locals(rt, f), Head(f.differences))
            IN [rt EXCEPT
                  !.source = step.st.source,
                  !.target = step.st.target,
                  !.shared = step.st.shared,
                  !.syncs[k] = [f EXCEPT
                      !.differences = Tail(@),
                      !.pending = IF step.threw THEN "" ELSE Head(f.differences).type,
                      !.conflicts = step.st.conflicts],
                  !.microtasks = Append(Tail(@), k)]

\* sidecar.synchronize(graphA, graphB, 'branchA', 'branchB') by a caller that
\* does not wait for the calls made before
SynchronizeCall ==
    /\ Len(syncs) < MaxSyncs
    /\ \E rt \in {called(Runtime)} : Applied(rt)
    /\ lastMirror' = [lastMirror EXCEPT !.op = "call"]

\* the runtime resumes the suspended call at the head of its queue
SynchronizeResume ==
    /\ microtasks # <<>>
    /\ \E rt \in {resumed(Runtime)} : Applied(rt)
    /\ lastMirror' = [lastMirror EXCEPT !.op = "resume"]

\* the stores, and the strategies under which a synchronize changes the target
OverlapStores ==
    {g \in MirrorStores : Len(g.scenes) <= 1}

InitOverlap == InitSidecar(OverlapStores, {"manual", "prefer_source"})

OverlapNext == SynchronizeCall \/ SynchronizeResume

SpecOverlap == InitOverlap /\ [][OverlapNext]_vars

\* Stores of up to two scenes and an arc.  A call of synchronize lists a
\* scene_removed difference for a scene that the target lacks; between the
\* segments of the calls, callers of the two stores add scenes and add scenes
\* to the arc, so that the target may hold the scene, listed or not, when the
\* call reaches the difference.
RaceStores ==
    {[scenes |-> sc, arcs |-> <<a>>, characters |-> <<>>] :
        sc \in {<<>>, BaseScenes(1, MaxMirrorScenes)},
        a \in {[BaseArc EXCEPT !.scenes = <<>>]}}

InitRace == InitSidecar(RaceStores, {"manual"})

RaceNext ==
    \/ SynchronizeCall
    \/ SynchronizeResume
    \/ \E side \in Sides, s \in 1..MaxMirrorScenes : addSceneOn(side, s)
    \/ \E side \in Sides, s \in 1..MaxMirrorScenes : addSceneToArcOn(side, 1, s)

SpecRace == InitRace /\ [][RaceNext]_vars

\* ------------------------------------------------------ the drift monitor
\* Branch names are strings; a name is taken here as the sequence of its parts
\* between dashes, so that `${branchNameA}-${branchNameB}` is the two sequences
\* joined: 'a' with 'a-a' and 'a-a' with 'a' give the same monitorId.
MonitorNames == {<<"a">>, <<"a", "a">>}
MonitorId(branchNameA, branchNameB) == branchNameA \o branchNameB
MonitorIds == {MonitorId(a, b) : a \in MonitorNames, b \in MonitorNames}

\* what the caller's callback does with the drift: report it, or stop the
\* monitor it came from
Callbacks == {"report", "stop"}

Thresholds == {0, 5, 30}

\* activeMonitors.has(monitorId), and a startMonitoring that never looks
neverMonitored(rt, monitorId) == FALSE
monitored(rt, monitorId) == Has(rt.activeMonitors, monitorId)

\* MirrorSidecar.stopMonitoring: a timer handle is an object or a positive
\* number, so the test of the handle is the test of the key
stopMonitoringIn(rt, monitorId) ==
    IF ~Has(rt.activeMonitors, monitorId) THEN rt
    ELSE [rt EXCEPT !.timers[Get(rt.activeMonitors, monitorId).interval].live = FALSE,
                    !.activeMonitors = MapDelete(@, monitorId)]

\* MirrorSidecar.startMonitoring: setInterval, and the Map's set, which keeps
\* the place of a key it holds already
startMonitoringIn(rt, branchNameA, branchNameB, callback) ==
    LET monitorId == MonitorId(branchNameA, branchNameB)
        stopped == IF monitored(rt, monitorId) THEN stopMonitoringIn(rt, monitorId) ELSE rt
        entry == [id |-> monitorId, interval |-> Len(rt.timers) + 1]
    IN [stopped EXCEPT
          !.timers = Append(@, [live |-> TRUE, branchNameA |-> branchNameA,
                                branchNameB |-> branchNameB, callback |-> callback,
                                ticks |-> 0]),
          !.activeMonitors = IF Has(@, monitorId) THEN Put(@, entry) ELSE Append(@, entry)]

\* MirrorSidecar.shutdown: stopMonitoring for every key of the Map
RECURSIVE stopAll(_, _)
stopAll(rt, entries) ==
    IF entries = <<>> THEN rt
    ELSE stopAll(stopMonitoringIn(rt, Head(entries).id), Tail(entries))

shutdownIn(rt) == stopAll(rt, rt.activeMonitors)

\* MirrorSidecar.shouldAutoSync, and one that takes the threshold itself too
shouldAutoSyncAtThreshold(drift) == drift.driftScore <= sidecar.autoSyncThreshold
shouldAutoSync(drift) == drift.driftScore < sidecar.autoSyncThreshold

\* the function given to setInterval: calculateDrift, the callback, and a
\* synchronize that is not waited for
ticked(rt, interval) ==
    LET timer == rt.timers[interval]
        drift == calculateDrift(rt.source, rt.target)
        computed == [rt EXCEPT !.history = Append(@, drift),
                               !.timers[interval].ticks = @ + 1]
        reported == IF timer.callback = "stop"
                    THEN stopMonitoringIn(computed,
                                          MonitorId(timer.branchNameA, timer.branchNameB))
                    ELSE computed
    IN IF shouldAutoSync(drift) THEN called(reported) ELSE reported

\* sidecar.startMonitoring(graphA, graphB, branchNameA, branchNameB, callback)
startMonitoring(branchNameA, branchNameB, callback) ==
    /\ Len(timers) < MaxTimers
    /\ \E rt \in {startMonitoringIn(Runtime, branchNameA, branchNameB, callback)} :
          Applied(rt)
    /\ lastMirror' = [lastMirror EXCEPT !.op = "startMonitoring"]

\* sidecar.stopMonitoring(monitorId)
stopMonitoring(monitorId) ==
    /\ \E rt \in {stopMonitoringIn(Runtime, monitorId)} : Applied(rt)
    /\ lastMirror' = [lastMirror EXCEPT !.op = "stopMonitoring"]

\* sidecar.shutdown()
shutdown ==
    /\ \E rt \in {shutdownIn(Runtime)} : Applied(rt)
    /\ lastMirror' = [lastMirror EXCEPT !.op = "shutdown"]

\* the runtime fires a timer that was not cleared, when no call is suspended
MonitorTick(interval) ==
    /\ interval \in DOMAIN timers
    /\ timers[interval].live
    /\ timers[interval].ticks < MaxTicks
    /\ Len(syncs) < MaxSyncs
    /\ microtasks = <<>>
    /\ \E rt \in {ticked(Runtime, interval)} : Applied(rt)
    /\ lastMirror' = [op |-> "tick", drift |-> calculateDrift(graphA, graphB),
                      report |-> NoSync]

\* two stores that are equal, a scene apart, or apart in a scene's premise
MonitorStores ==
    {[scenes |-> sc, arcs |-> <<>>, characters |-> <<>>] :
        sc \in {<<>>, <<BaseScene(1)>>,
                <<[BaseScene(1) EXCEPT !.premise = "Y", !.updatedAt = MaxTime]>>}}

InitMonitor ==
    /\ graphA \in MonitorStores /\ graphB \in MonitorStores
    /\ sidecar \in {[conflictStrategy |-> s, autoSyncThreshold |-> t,
                     driftHistory |-> <<>>] :
                       s \in {"prefer_source"}, t \in Thresholds}
    /\ lastMirror = NoMirror
    /\ StoreIdle
    /\ TimelineIdle
    /\ RuntimeIdle

MonitorNext ==
    \/ \E a \in MonitorNames, b \in MonitorNames, callback \in Callbacks :
          startMonitoring(a, b, callback)
    \/ \E monitorId \in MonitorIds : stopMonitoring(monitorId)
    \/ shutdown
    \/ \E interval \in 1..MaxTimers : MonitorTick(interval)
    \/ SynchronizeResume

SpecMonitor == InitMonitor /\ [][MonitorNext]_vars

\* ------------------------------------------------------ Timeline Manager
\* The TimelineManager holds its timelines in a Map, here a sequence in
\* insertion order.  A timeline is [id, type, timePoints, parentTimelineId];
\* parentTimelineId is <<>> when none was given (undefined, or the empty
\* string, which the manager's test takes for none) and <<id>> otherwise.  A time
\* point is [sceneId, timestamp].  The store the validator is handed is graphA.
TimelineIds == 1..MaxTimelines
TimelineTypes == {"main", "flashback"}
Timestamps == 0..MaxStamp

\* Math.min() of no number is Infinity and Math.max() of none is -Infinity:
\* a value above, and one below, every timestamp
Infinity == MaxStamp + 1
MinusInfinity == 0 - 1

MathMin(numbers) ==
    IF numbers = <<>> THEN Infinity
    ELSE CHOOSE n \in Range(numbers) : \A k \in Range(numbers) : n <= k

MathMax(numbers) ==
    IF numbers = <<>> THEN MinusInfinity
    ELSE CHOOSE n \in Range(numbers) : \A k \in Range(numbers) : n >= k

\* a push that is followed by no sort
KeepPushOrder(points) == points

\* timePoints.sort((a, b) => a.timestamp - b.timestamp): a stable sort
SortByTimestamp(points) ==
    LET Before(sorted, p) == Cardinality({k \in DOMAIN sorted : sorted[k].timestamp <= p.timestamp})
        Sorted[i \in 0..Len(points)] ==
            IF i = 0 THEN <<>>
            ELSE SpliceIn(Sorted[i - 1], Before(Sorted[i - 1], points[i]), points[i])
    IN Sorted[Len(points)]

\* the elements of a list, each once, in the order of their first occurrence
\* (the keys of a Map filled while walking the list)
Keys(list) ==
    LET Seen[i \in 0..Len(list)] ==
            IF i = 0 THEN <<>>
            ELSE IF Includes(Seen[i - 1], list[i]) THEN Seen[i - 1]
            ELSE Append(Seen[i - 1], list[i])
    IN Seen[Len(list)]

PointOf(points, sceneId) ==
    CHOOSE i \in DOMAIN points :
        points[i].sceneId = sceneId /\ \A j \in 1..(i - 1) : points[j].sceneId # sceneId

HasPoint(points, sceneId) == \E i \in DOMAIN points : points[i].sceneId = sceneId

\* a call of the manager that changes no store and no sidecar
TimelineCall(op) ==
    /\ lastTimeline' = op
    /\ timelineCalls' = timelineCalls + 1
    /\ UNCHANGED <<graphA, graphB, sidecar, lastMirror>>
    /\ UNCHANGED storeVars
    /\ UNCHANGED runtimeVars

\* TimelineManager.createTimeline(id, name, type, parentTimelineId)
createTimeline(id, type, parentTimelineId) ==
    /\ timelineCalls < MaxTimelineCalls
    /\ IF Has(timelines, id)
       THEN /\ TimelineCall(TimelineOp("createTimeline", FALSE, id))
            /\ UNCHANGED <<timelines, sceneToTimeline>>
       ELSE /\ timelines' = Append(timelines,
                                   [id |-> id, type |-> type, timePoints |-> <<>>,
                                    parentTimelineId |-> parentTimelineId])
            /\ TimelineCall(TimelineOp("createTimeline", TRUE, id))
            /\ UNCHANGED sceneToTimeline

\* TimelineManager.addTimePoint(timelineId, timePoint)
addTimePoint(timelineId, timePoint) ==
    /\ timelineCalls < MaxTimelineCalls
    /\ IF \/ ~Has(timelines, timelineId)
          \/ HasPoint(Get(timelines, timelineId).timePoints, timePoint.sceneId)
       THEN /\ TimelineCall(TimelineOp("addTimePoint", FALSE, timelineId))
            /\ UNCHANGED <<timelines, sceneToTimeline>>
       ELSE /\ timelines' =
                   Put(timelines,
                       [Get(timelines, timelineId) EXCEPT
                           !.timePoints = SortByTimestamp(Append(@, timePoint))])
            /\ sceneToTimeline' =
                   [sceneToTimeline EXCEPT
                       ![timePoint.sceneId] =
                           IF Includes(@, timelineId) THEN @ ELSE Append(@, timelineId)]
            /\ TimelineCall(TimelineOp("addTimePoint", TRUE, timelineId))

\* TimelineManager.removeTimePoint(timelineId, sceneId)
removeTimePoint(timelineId, sceneId) ==
    /\ timelineCalls < MaxTimelineCalls
    /\ IF \/ ~Has(timelines, timelineId)
          \/ ~HasPoint(Get(timelines, timelineId).timePoints, sceneId)
       THEN /\ TimelineCall(TimelineOp("removeTimePoint", FALSE, timelineId))
            /\ UNCHANGED <<timelines, sceneToTimeline>>
       ELSE /\ timelines' =
                   Put(timelines,
                       [Get(timelines, timelineId) EXCEPT
                           !.timePoints = SpliceOut(@, PointOf(@, sceneId))])
            /\ sceneToTimeline' = [sceneToTimeline EXCEPT ![sceneId] = Without(@, timelineId)]
            /\ TimelineCall(TimelineOp("removeTimePoint", TRUE, timelineId))

\* TimelineManager.deleteTimeline(timelineId): the timelines that name it as
\* their parent are left as they are
deleteTimeline(timelineId) ==
    /\ timelineCalls < MaxTimelineCalls
    /\ IF ~Has(timelines, timelineId)
       THEN /\ TimelineCall(TimelineOp("deleteTimeline", FALSE, timelineId))
            /\ UNCHANGED <<timelines, sceneToTimeline>>
       ELSE /\ timelines' = MapDelete(timelines, timelineId)
            /\ sceneToTimeline' =
                   [s \in DOMAIN sceneToTimeline |->
                       IF HasPoint(Get(timelines, timelineId).timePoints, s)
                       THEN Without(sceneToTimeline[s], timelineId)
                       ELSE sceneToTimeline[s]]
            /\ TimelineCall(TimelineOp("deleteTimeline", TRUE, timelineId))

\* a clear() that empties the timelines and keeps the scene index
clearTimelinesOnly ==
    /\ timelineCalls < MaxTimelineCalls
    /\ timelines' = <<>>
    /\ UNCHANGED sceneToTimeline
    /\ TimelineCall(TimelineOp("clear", TRUE, 0))

\* TimelineManager.clear()
clear ==
    /\ timelineCalls < MaxTimelineCalls
    /\ timelines' = <<>>
    /\ sceneToTimeline' = [s \in DOMAIN sceneToTimeline |-> <<>>]
    /\ TimelineCall(TimelineOp("clear", TRUE, 0))

TemporalIssue(type, severity, affectedScenes, affectedCharacters, timelineIds) ==
    [type |-> type, severity |-> severity, affectedScenes |-> affectedScenes,
     affectedCharacters |-> affectedCharacters, timelineIds |-> timelineIds]

\* TimelineManager.validateTimelineSequence
validateTimelineSequence(timeline, graph) ==
    LET points == timeline.timePoints
        Earlier(i) ==
            IF i > 1 /\ points[i].timestamp <= points[i - 1].timestamp
            THEN <<TemporalIssue("sequence_violation", "warning",
                                 <<points[i - 1].sceneId, points[i].sceneId>>, <<>>,
                                 <<timeline.id>>)>>
            ELSE <<>>
        LinksBack(i) ==
            LET scene == Get(graph.scenes, points[i].sceneId)
                Back(linkId) ==
                    /\ HasPoint(points, linkId)
                    /\ points[PointOf(points, linkId)].timestamp < points[i].timestamp
            IN [k \in DOMAIN SelectSeq(scene.links, Back) |->
                   TemporalIssue("sequence_violation", "warning",
                                 <<scene.id, SelectSeq(scene.links, Back)[k]>>, <<>>,
                                 <<timeline.id>>)]
        At(i) ==
            IF ~Has(graph.scenes, points[i].sceneId)
            THEN <<TemporalIssue("orphaned_timepoint", "error", <<points[i].sceneId>>, <<>>,
                                 <<timeline.id>>)>>
            ELSE Earlier(i) \o LinksBack(i)
    IN Flatten([i \in DOMAIN points |-> At(i)])

\* a check that reports every scene of a character as an appearance elsewhere
anyAppearance(sceneIds) == Len(sceneIds) > 0

\* the scenes of one character at one timestamp are an impossible appearance
simultaneous(sceneIds) == Len(sceneIds) > 1

\* TimelineManager.validateCharacterPresenceInTimeline
validateCharacterPresenceInTimeline(timeline, graph) ==
    LET points == timeline.timePoints
        Known(p) == Has(graph.scenes, p.sceneId)
        known == SelectSeq(points, Known)
        characterIds ==
            Keys(Flatten([i \in DOMAIN known |->
                             Get(graph.scenes, known[i].sceneId).characterPresence]))
        Of(characterId) ==
            LET Shows(p) == Includes(Get(graph.scenes, p.sceneId).characterPresence, characterId)
                shown == SelectSeq(known, Shows)
                stamps == Keys([i \in DOMAIN shown |-> shown[i].timestamp])
                Scenes(timestamp) ==
                    LET At(p) == p.timestamp = timestamp
                    IN [i \in DOMAIN SelectSeq(shown, At) |-> SelectSeq(shown, At)[i].sceneId]
                Twice(timestamp) == simultaneous(Scenes(timestamp))
            IN IF ~Has(graph.characters, characterId) THEN <<>>
               ELSE [k \in DOMAIN SelectSeq(stamps, Twice) |->
                        TemporalIssue("character_presence", "error",
                                      Scenes(SelectSeq(stamps, Twice)[k]), <<characterId>>,
                                      <<timeline.id>>)]
    IN Flatten([c \in DOMAIN characterIds |-> Of(characterIds[c])])

\* the comparison of findTimelineContradictions that guards its warning
paradoxShown(latestFlashbackTime, earliestParentTime, parentTimePoints) ==
    latestFlashbackTime > earliestParentTime /\ Len(parentTimePoints) = 0

\* TimelineManager.findTimelineContradictions
findTimelineContradictions(timeline, parentTimeline, graph) ==
    LET points == timeline.timePoints
        Known(p) == Has(graph.scenes, p.sceneId)
        known == SelectSeq(points, Known)
        For(p, characterId) ==
            LET Shows(tp) ==
                    /\ Has(graph.scenes, tp.sceneId)
                    /\ Includes(Get(graph.scenes, tp.sceneId).characterPresence, characterId)
                parentTimePoints == SelectSeq(parentTimeline.timePoints, Shows)
                earliestParentTime ==
                    MathMin([i \in DOMAIN parentTimePoints |-> parentTimePoints[i].timestamp])
                latestFlashbackTime == MathMax([i \in DOMAIN points |-> points[i].timestamp])
            IN IF /\ Has(graph.characters, characterId)
                  /\ timeline.type = "flashback"
                  /\ paradoxShown(latestFlashbackTime, earliestParentTime, parentTimePoints)
               THEN <<TemporalIssue("paradox", "warning", <<p.sceneId>>, <<characterId>>,
                                    <<timeline.id, parentTimeline.id>>)>>
               ELSE <<>>
        At(p) ==
            LET present == Get(graph.scenes, p.sceneId).characterPresence
            IN Flatten([k \in DOMAIN present |-> For(p, present[k])])
    IN Flatten([i \in DOMAIN known |-> At(known[i])])

\* a check that takes no timeline to declare a parent
declaresNothing(timeline) == FALSE

\* the test of detectTemporalParadoxes for a parent that is declared
declaresParent(timeline) == timeline.parentTimelineId # <<>>

\* TimelineManager.detectTemporalParadoxes
detectTemporalParadoxes(timeline, graph) ==
    IF ~declaresParent(timeline) THEN <<>>
    ELSE IF ~Has(timelines, timeline.parentTimelineId[1])
    THEN <<TemporalIssue("paradox", "error", <<>>, <<>>, <<timeline.id>>)>>
    ELSE findTimelineContradictions(timeline, Get(timelines, timeline.parentTimelineId[1]),
                                    graph)

\* TimelineManager.detectTimelineOverlaps
detectTimelineOverlaps ==
    LET SceneIdsOf(tl) == Keys([i \in DOMAIN tl.timePoints |-> tl.timePoints[i].sceneId])
        Pair(i, j) ==
            LET In2(id) == Includes(SceneIdsOf(timelines[j]), id)
                overlap == SelectSeq(SceneIdsOf(timelines[i]), In2)
            IN IF timelines[i].type = timelines[j].type /\ Len(overlap) > 0
               THEN <<TemporalIssue("timeline_overlap", "warning", overlap, <<>>,
                                    <<timelines[i].id, timelines[j].id>>)>>
               ELSE <<>>
        From(i) == Flatten([k \in 1..(Len(timelines) - i) |-> Pair(i, i + k)])
    IN Flatten([i \in DOMAIN timelines |-> From(i)])

\* TimelineManager.detectOrphanedScenes
detectOrphanedTimelineScenes(graph) ==
    LET Outside(scene) ==
            \A i \in DOMAIN timelines : ~HasPoint(timelines[i].timePoints, scene.id)
        orphaned == SelectSeq(graph.scenes, Outside)
    IN [i \in DOMAIN orphaned |-> orphaned[i].id]

\* TimelineManager.validateTemporalConsistency: the TemporalReport
temporalReport(graph) ==
    LET PerTimeline(timeline) ==
            validateTimelineSequence(timeline, graph)
            \o validateCharacterPresenceInTimeline(timeline, graph)
            \o detectTemporalParadoxes(timeline, graph)
        issues == Flatten([i \in DOMAIN timelines |-> PerTimeline(timelines[i])])
                  \o detectTimelineOverlaps
        orphanedScenes == detectOrphanedTimelineScenes(graph)
        IsError(issue) == issue.severity = "error"
        allPoints == Flatten([i \in DOMAIN timelines |-> timelines[i].timePoints])
    IN [consistent |-> Len(SelectSeq(issues, IsError)) = 0,
        issues |-> issues,
        warnings |-> IF Len(orphanedScenes) > 0 THEN <<orphanedScenes>> ELSE <<>>,
        stats |-> [timelinesChecked |-> Len(timelines),
                   timePointsChecked |-> Len(allPoints),
                   scenesInTimelines |->
                       Cardinality({allPoints[i].sceneId : i \in DOMAIN allPoints})]]

\* timelineManager.validateTemporalConsistency(graphA)
validateTemporalConsistency ==
    /\ lastTimeline.op # "validateTemporalConsistency"
    /\ \E report \in {temporalReport(graphA)} :
          lastTimeline' = [op |-> "validateTemporalConsistency", ok |-> TRUE, id |-> 0,
                           report |-> report]
    /\ UNCHANGED <<timelines, sceneToTimeline, timelineCalls>>
    /\ UNCHANGED <<graphA, graphB, sidecar, lastMirror>>
    /\ UNCHANGED storeVars
    /\ UNCHANGED runtimeVars

\* ------------------------------------- the stores the validator is given
\* scenes 1 and 2, each with no character, with character 1 or with both, the
\* second also linked back to the first, or scene 1 alone; with both
\* characters in the store or with character 2 alone
PresenceLists == {<<>>, <<1>>, <<1, 2>>}

TimelineStores ==
    {[scenes |-> <<[BaseScene(1) EXCEPT !.characterPresence = p1]>> \o second,
      arcs |-> <<>>,
      characters |-> cs] :
        p1 \in PresenceLists,
        second \in {<<>>} \cup {<<[BaseScene(2) EXCEPT !.characterPresence = p2]>> :
                                   p2 \in PresenceLists}
                          \cup {<<[BaseScene(2) EXCEPT !.links = <<1>>]>>},
        cs \in {<<BaseCharacter(1), BaseCharacter(2)>>, <<BaseCharacter(2)>>}}

InitTimeline ==
    /\ graphA \in TimelineStores /\ graphB = EmptyGraph
    /\ sidecar = [conflictStrategy |-> "manual", autoSyncThreshold |-> 30,
                  driftHistory |-> <<>>]
    /\ lastMirror = NoMirror
    /\ StoreIdle
    /\ TimelineIdle
    /\ RuntimeIdle

TimelineNext ==
    \/ \E id \in TimelineIds, type \in TimelineTypes, parent \in Optional(TimelineIds) :
          createTimeline(id, type, parent)
    \/ \E id \in TimelineIds, s \in 1..MaxMirrorScenes, t \in Timestamps :
          addTimePoint(id, [sceneId |-> s, timestamp |-> t])
    \/ \E id \in TimelineIds, s \in 1..MaxMirrorScenes : removeTimePoint(id, s)
    \/ \E id \in TimelineIds : deleteTimeline(id)
    \/ clear
    \/ validateTemporalConsistency

SpecTimeline == InitTimeline /\ [][TimelineNext]_vars

\* ------------------------------------------------------------ the specs

\* new GraphDB(), new BranchManager(graph), new SnapshotManager(max)
Constructed(max) ==
    /\ scenes = <<>> /\ arcs = <<>> /\ characters = <<>>
    /\ arr = [x \in ArrAddr |-> <<>>]
    /\ meta = [x \in MetaAddr |-> 0]
    /\ flow = [x \in FlowAddr |-> EmptyFlow]
    /\ now = 0
    /\ nextScene = 1 /\ nextArc = 1 /\ nextChar = 1
    /\ snapshots = <<>> /\ nextSnap = 1 /\ maxSnapshots = max
    /\ branches = [b \in {"main"} |-> [snapshot |-> EmptySnapshot, parent |-> "", protected |-> TRUE]]
    /\ currentBranch = "main"
    /\ lastStored = [b \in {"main"} |-> EmptySnapshot]
    /\ lastOp = Op("init", TRUE, 0)
    /\ calls = 0
    /\ MirrorIdle
    /\ TimelineIdle
    /\ RuntimeIdle

Init == Constructed(DefaultMaxSnapshots)

StoreNext ==
    \/ \E d \in SceneData : createScene(d)
    \/ \E id \in SceneIds, t \in SceneIds : sceneAddLink(id, t)
    \/ \E id \in SceneIds, u \in SceneUpdates : updateScene(id, u)
    \/ \E id \in SceneIds : deleteScene(id)
    \/ \E i \in Intents : createArc(i)
    \/ \E id \in ArcIds, u \in ArcUpdates : updateArc(id, u)
    \/ \E id \in ArcIds : deleteArc(id)
    \/ \E a \in ArcIds, s \in SceneIds, p \in -1..MaxScenes : addSceneToArc(a, s, p)
    \/ \E a \in ArcIds, ph \in Phases, s \in SceneIds : addToAridPhase(a, ph, s)
    \/ \E d \in CharacterData : createCharacter(d)
    \/ \E id \in CharIds, u \in CharacterUpdates : updateCharacter(id, u)
    \/ \E id \in CharIds : deleteCharacter(id)
    \/ \E c \in CharIds, s \in SceneIds : addCharacterToScene(c, s)
    \/ \E c \in CharIds, s \in SceneIds : removeCharacterFromScene(c, s)
    \/ \E c1 \in CharIds, c2 \in CharIds, st \in Strengths : createRelationship(c1, c2, st)
    \/ checkCoherence
    \/ reloadSnapshot

SpecStore == Init /\ [][StoreNext]_vars

\* the calls of an editing session on branches: plain creations and the
\* mutators, the Snapshot Manager and the Branch Manager
PlainScene == [title |-> "T", premise |-> "X", cost |-> 1, links |-> NoArray,
               characterPresence |-> NoArray]
PlainCharacter == [name |-> "N", relationships |-> NoArray, scenePresence |-> NoArray,
                   arcData |-> NoArcData]
PremiseUpdates == {u \in SceneUpdates : u.premise # ""}

Next ==
    \/ createScene(PlainScene)
    \/ \E id \in SceneIds, t \in SceneIds : sceneAddLink(id, t)
    \/ \E id \in SceneIds, u \in PremiseUpdates : updateScene(id, u)
    \/ \E id \in SceneIds : deleteScene(id)
    \/ createArc("I")
    \/ \E a \in ArcIds, s \in SceneIds : addSceneToArc(a, s, -1)
    \/ createCharacter(PlainCharacter)
    \/ \E c \in CharIds, s \in SceneIds : addCharacterToScene(c, s)
    \/ createManualSnapshot
    \/ \E id \in 1..MaxSnaps : rollback(id)
    \/ \E n \in BranchNames : createBranch(n)
    \/ \E n \in BranchNames : switchBranch(n)
    \/ saveBranch
    \/ \E n \in BranchNames : mergeBranch(n)
    \/ \E n \in BranchNames : deleteBranch(n)
    \/ Tick

Spec == Init /\ [][Next]_vars

\* A session that creates characters with and without a character arc, stores
\* the content in snapshots and branches, and loads it back.
ArcCharacters == {[PlainCharacter EXCEPT !.arcData = a] : a \in CharacterArcs}

LoadNext ==
    \/ createScene(PlainScene)
    \/ \E d \in ArcCharacters : createCharacter(d)
    \/ createManualSnapshot
    \/ \E id \in 1..MaxSnaps : rollback(id)
    \/ \E n \in BranchNames : createBranch(n)
    \/ \E n \in BranchNames : switchBranch(n)
    \/ reloadSnapshot

SpecLoad == Init /\ [][LoadNext]_vars

\* A session on an empty store that creates scenes and characters without
\* presence lists and then adds, removes and deletes
PresenceNext ==
    \/ createScene(PlainScene)
    \/ createCharacter(PlainCharacter)
    \/ \E c \in CharIds, s \in SceneIds : addCharacterToScene(c, s)
    \/ \E c \in CharIds, s \in SceneIds : removeCharacterFromScene(c, s)
    \/ \E id \in SceneIds : deleteScene(id)
    \/ \E id \in CharIds : deleteCharacter(id)

SpecPresence == Init /\ [][PresenceNext]_vars

\* A session that builds scenes and links, deletes scenes, and asks one
\* solver again and again, with a reset now and then
SolverNext ==
    \/ createScene(PlainScene)
    \/ \E id \in SceneIds, t \in SceneIds : sceneAddLink(id, t)
    \/ \E id \in SceneIds : deleteScene(id)
    \/ checkCoherenceThen(calls + 1)
    \/ checkCircularDependenciesThen(calls + 1)
    \/ reset

SpecSolver == Init /\ [][SolverNext]_vars

\* a SnapshotManager constructed with a small maximum, taking up to
\* MaxStored snapshots of a store with at most one scene
MaxStored == 4
Maxima == {0 - 1, 0, 1, 2, 3}

InitRetention == \E max \in {1, 2} : Constructed(max)

RetentionNext ==
    \/ createScene(PlainScene)
    \/ createAutoSnapshot(MaxStored)
    \/ snapshotTaken("createManualSnapshot", MaxStored)
    \/ \E id \in 1..MaxStored : deleteSnapshot(id)
    \/ \E max \in Maxima : setMaxSnapshots(max)

SpecRetention == InitRetention /\ [][RetentionNext]_vars

\* An editing session that starts after createScene, createArc and saveBranch:
\* the store holds scene 1 and arc 1 and branch main has stored them.
MergeScene == [id |-> 1, title |-> "T", premise |-> "X", cost |-> 1,
               links |-> 1, characterPresence |-> 2, metadata |-> 1]
MergeArc == [id |-> 1, intent |-> "I", scenes |-> 3, aridFlow |-> 0, metadata |-> 2]
MergeSnapshot == [scenes |-> <<MergeScene>>, arcs |-> <<MergeArc>>, characters |-> <<>>]
MergeStored ==
    [scenes |-> <<[id |-> 1, title |-> "T", premise |-> "X", cost |-> 1,
                   links |-> <<>>, characterPresence |-> <<>>]>>,
     arcs |-> <<[id |-> 1, intent |-> "I", scenes |-> <<>>, hasFlow |-> FALSE,
                 aridFlow |-> EmptyFlow]>>,
     characters |-> <<>>]

InitMerge ==
    /\ scenes = <<MergeScene>> /\ arcs = <<MergeArc>> /\ characters = <<>>
    /\ arr = [x \in ArrAddr |-> <<>>]
    /\ meta = [x \in MetaAddr |-> 0]
    /\ flow = [x \in FlowAddr |-> EmptyFlow]
    /\ now = 0
    /\ nextScene = 2 /\ nextArc = 2 /\ nextChar = 1
    /\ snapshots = <<>> /\ nextSnap = 1 /\ maxSnapshots = DefaultMaxSnapshots
    /\ branches = [b \in {"main"} |->
                      [snapshot |-> MergeSnapshot, parent |-> "", protected |-> TRUE]]
    /\ currentBranch = "main"
    /\ lastStored = [b \in {"main"} |-> MergeStored]
    /\ lastOp = Op("init", TRUE, 0)
    /\ calls = 0
    /\ MirrorIdle
    /\ TimelineIdle
    /\ RuntimeIdle

IntentUpdates == {u \in ArcUpdates : u.intent # ""}

MergeNext ==
    \/ createScene(PlainScene)
    \/ \E id \in SceneIds, t \in SceneIds : sceneAddLink(id, t)
    \/ \E id \in SceneIds, u \in PremiseUpdates : updateScene(id, u)
    \/ \E id \in SceneIds : deleteScene(id)
    \/ \E id \in ArcIds, u \in IntentUpdates : updateArc(id, u)
    \/ \E id \in ArcIds : deleteArc(id)
    \/ \E a \in ArcIds, s \in SceneIds : addSceneToArc(a, s, -1)
    \/ \E n \in BranchNames : createBranch(n)
    \/ \E n \in BranchNames : switchBranch(n)
    \/ saveBranch
    \/ \E n \in BranchNames : mergeBranch(n)
    \/ \E n \in BranchNames : deleteBranch(n)
    \/ Tick

SpecMerge == InitMerge /\ [][MergeNext]_vars

\* A store holding any scenes of GraphIds in any insertion order, each with any
\* list of distinct link targets in any order; a target outside the store is a
\* broken link.  The solver is then asked for the cycles.
OrderedSubsets(S) ==
    {s \in SeqsUpTo(S, Cardinality(S)) : \A i, j \in DOMAIN s : i # j => s[i] # s[j]}

InitCycle ==
    \E order \in OrderedSubsets(GraphIds) :
    \E linksOf \in [Range(order) -> OrderedSubsets(GraphIds)] :
        /\ scenes = [i \in DOMAIN order |->
                        [id |-> order[i], title |-> "T", premise |-> "X", cost |-> 1,
                         links |-> 2 * i - 1, characterPresence |-> 2 * i, metadata |-> i]]
        /\ arr = [x \in ArrAddr |->
                    IF \E i \in DOMAIN order : x = 2 * i - 1
                    THEN linksOf[order[(x + 1) \div 2]] ELSE <<>>]
        /\ arcs = <<>> /\ characters = <<>>
        /\ meta = [x \in MetaAddr |-> 0]
        /\ flow = [x \in FlowAddr |-> EmptyFlow]
        /\ now = 0
        /\ nextScene = MaxGraph + 1 /\ nextArc = 1 /\ nextChar = 1
        /\ snapshots = <<>> /\ nextSnap = 1 /\ maxSnapshots = DefaultMaxSnapshots
        /\ branches = [b \in {"main"} |->
                          [snapshot |-> EmptySnapshot, parent |-> "", protected |-> TRUE]]
        /\ currentBranch = "main"
        /\ lastStored = [b \in {"main"} |-> EmptySnapshot]
        /\ lastOp = Op("init", TRUE, 0)
        /\ calls = 0
        /\ MirrorIdle
        /\ TimelineIdle
        /\ RuntimeIdle

CycleNext == checkCircularDependencies

SpecCycle == InitCycle /\ [][CycleNext]_vars

\* ------------------------------------------------------------ properties
\* what the live store holds
StoreContent == SnapshotContent(createSnapshot)

\* what each stored snapshot of the Snapshot Manager holds
StoredContent == [i \in DOMAIN snapshots |-> SnapshotContent(snapshots[i].snapshot)]

\* what each branch's stored snapshot holds
BranchContent == [b \in DOMAIN branches |-> SnapshotContent(branches[b].snapshot)]

\* the step is a mergeBranch call naming an existing source branch
MergeStep ==
    /\ calls' # calls
    /\ lastOp'.op = "mergeBranch"
    /\ lastOp'.branch \in DOMAIN branches

\* C1: a snapshot taken by createSnapshot keeps the scenes, arcs and characters
\* it had when it was taken, every links, scenes, characterPresence and
\* scenePresence list included, whatever is done to the live store afterwards.
C1_SnapshotImmutable ==
    [][\A i \in DOMAIN snapshots : StoredContent'[i] = StoredContent[i]]_vars

\* C2: the stored snapshot of a branch changes only by a saveBranch or a
\* successful mergeBranch made while that branch is current; no other call
\* changes what any branch's stored snapshot holds.
C2_BranchSnapshotStable ==
    [][\A b \in DOMAIN branches :
          (b \in DOMAIN branches' /\ BranchContent'[b] # BranchContent[b])
          => /\ b = currentBranch
             /\ calls' # calls
             /\ lastOp'.op \in {"saveBranch", "mergeBranch"}
             /\ lastOp'.ok]_vars

\* C3: a mergeBranch that detects at least one conflict returns success=false
\* with the non-empty conflict list and applies nothing: the live store, every
\* branch's stored snapshot and the current-branch pointer stay as they were.
C3_ConflictAborts ==
    [][(MergeStep /\ detectConflicts(branches[lastOp'.branch].snapshot,
                                      branches[currentBranch].snapshot) # <<>>)
       => /\ ~lastOp'.ok
          /\ lastOp'.conflicts = detectConflicts(branches[lastOp'.branch].snapshot,
                                                 branches[currentBranch].snapshot)
          /\ Len(lastOp'.conflicts) > 0
          /\ StoreContent' = StoreContent
          /\ BranchContent' = BranchContent
          /\ currentBranch' = currentBranch
          /\ UNCHANGED <<scenes, arcs, characters, arr, meta, flow, branches>>]_vars

\* C3 witness: a merge was refused with a delete-vs-keep conflict while the
\* current branch holds a scene
C3_Witness ==
    /\ lastOp.op = "mergeBranch" /\ ~lastOp.ok
    /\ \E i \in DOMAIN lastOp.conflicts : lastOp.conflicts[i].type = "scene_deleted"
    /\ Len(scenes) > 0

\* C4: when the source snapshot holds every scene and arc of the current
\* branch's snapshot with identical content, a merge reports no conflict and
\* afterwards the live store and the current branch's stored snapshot hold
\* exactly the union of the two snapshots' scenes, arcs and characters.
C4_AdditiveMergeIsUnion ==
    [][LET source == branches[lastOp'.branch].snapshot
           target == branches[currentBranch].snapshot
           src == SnapshotContent(source)
           tgt == SnapshotContent(target)
           union == [scenes |-> Range(src.scenes) \cup Range(tgt.scenes),
                     arcs |-> Range(src.arcs) \cup Range(tgt.arcs),
                     characters |-> Range(src.characters) \cup Range(tgt.characters)]
           AsSets(c) == [scenes |-> Range(c.scenes), arcs |-> Range(c.arcs),
                         characters |-> Range(c.characters)]
           additive ==
               /\ \A i \in DOMAIN target.scenes :
                     \E j \in DOMAIN source.scenes :
                        SceneJSON(source.scenes[j]) = SceneJSON(target.scenes[i])
               /\ \A i \in DOMAIN target.arcs :
                     \E j \in DOMAIN source.arcs :
                        ArcJSON(source.arcs[j]) = ArcJSON(target.arcs[i])
       IN (MergeStep /\ additive)
          => /\ lastOp'.ok /\ lastOp'.conflicts = <<>>
             /\ AsSets(StoreContent') = union
             /\ AsSets(BranchContent'[currentBranch]) = union]_vars

\* C5: a merge reports a delete-vs-keep conflict for every scene and every arc
\* that the current branch's snapshot holds and the source snapshot lacks, and
\* therefore does not succeed.
C5_DeleteVsKeepConflict ==
    [][MergeStep =>
       LET source == branches[lastOp'.branch].snapshot
           target == branches[currentBranch].snapshot
           Reported(type, id) ==
               \E i \in DOMAIN lastOp'.conflicts :
                  lastOp'.conflicts[i] = [type |-> type, entityId |-> id]
       IN /\ \A i \in DOMAIN target.scenes :
                ~Has(source.scenes, target.scenes[i].id)
                => ~lastOp'.ok /\ Reported("scene_deleted", target.scenes[i].id)
          /\ \A i \in DOMAIN target.arcs :
                ~Has(source.arcs, target.arcs[i].id)
                => ~lastOp'.ok /\ Reported("arc_deleted", target.arcs[i].id)]_vars

\* C6: after a successful merge every character of the current branch's or the
\* source branch's snapshot is in the live store and in the current branch's
\* saved snapshot.
C6_MergeKeepsCharacters ==
    [][(MergeStep /\ lastOp'.ok) =>
       \A c \in Range(branches[lastOp'.branch].snapshot.characters)
                \cup Range(branches[currentBranch].snapshot.characters) :
          /\ Has(characters', c.id)
          /\ Has(branches'[currentBranch].snapshot.characters, c.id)]_vars

\* C7: a createScene, createCharacter, updateScene, updateArc or updateCharacter
\* call that fails leaves the store as it was: nothing is inserted and every
\* stored entity keeps the attribute values it had before the call.
C7_FailedCallChangesNothing ==
    [][(calls' # calls /\ ~lastOp'.ok
        /\ lastOp'.op \in {"createScene", "createCharacter", "updateScene", "updateArc",
                           "updateCharacter"})
       => StoreContent' = StoreContent]_vars

\* C8: after deleteScene(id) returned true no arc holds id in its scene list or
\* in a phase of its flow, and no character lists id in scenePresence.
C8_DeleteSceneLeavesNoReference ==
    (lastOp.op = "deleteScene" /\ lastOp.ok)
    => /\ \A i \in DOMAIN arcs :
            /\ ~Includes(arr[arcs[i].scenes], lastOp.id)
            /\ arcs[i].aridFlow # 0
               => \A ph \in Phases : ~Includes(flow[arcs[i].aridFlow][ph], lastOp.id)
       /\ \A i \in DOMAIN characters : ~Includes(arr[characters[i].scenePresence], lastOp.id)

\* C9: after deleteCharacter(id) returned true no scene lists id in
\* characterPresence and no remaining character has a relationship to id.
C9_DeleteCharacterLeavesNoReference ==
    (lastOp.op = "deleteCharacter" /\ lastOp.ok)
    => /\ \A i \in DOMAIN scenes : ~Includes(arr[scenes[i].characterPresence], lastOp.id)
       /\ \A i \in DOMAIN characters :
             \A k \in DOMAIN characters[i].relationships :
                characters[i].relationships[k].characterId # lastOp.id

\* the scene-link relation of the live store: a link between two stored scenes
Linked(a, b) ==
    /\ Has(scenes, a) /\ Has(scenes, b)
    /\ Includes(arr[scenes[Pos(scenes, a)].links], b)

\* the scenes reached from the scenes of S along at least one and at most k links
RECURSIVE ReachedIn(_, _)
ReachedIn(S, k) ==
    LET step == {b \in GraphIds : \E a \in S : Linked(a, b)}
    IN IF k = 1 THEN step ELSE step \cup ReachedIn(step, k - 1)

\* the scene-link relation holds a directed cycle (a self-link is one)
HasCycle == \E a \in GraphIds : a \in ReachedIn({a}, MaxGraph)

\* C10: detectCircularDependencies returns a non-empty list exactly when the
\* scene-link relation holds a directed cycle, for every order of the scenes and
\* of the links; every returned path is closed and each consecutive pair in it
\* is a link of the store.
C10_CycleDetection ==
    lastOp.op = "detectCircularDependencies"
    => /\ (Len(lastOp.cycles) > 0) <=> HasCycle
       /\ \A i \in DOMAIN lastOp.cycles :
             LET path == lastOp.cycles[i]
             IN /\ Len(path) >= 2
                /\ path[1] = path[Len(path)]
                /\ \A k \in 1..(Len(path) - 1) : Linked(path[k], path[k + 1])

\* C10 witness: a cycle through three scenes was reported although the store
\* does not hold the scenes in identifier order
C10_Witness ==
    /\ lastOp.op = "detectCircularDependencies"
    /\ HasCycle
    /\ \E i \in DOMAIN lastOp.cycles : Len(lastOp.cycles[i]) = 4
    /\ Len(scenes) = 3 /\ scenes[1].id > scenes[2].id

\* C11: checkCoherence returns coherent=true exactly when the store has no link
\* cycle, no link to a missing scene, no presence entry that is unmatched on the
\* other side or names a missing scene or character, and no relationship to a
\* missing character; an orphan scene or an empty arc adds a warning and nothing
\* else.
C11_CoherentIffNoError ==
    lastOp.op = "checkCoherence"
    => LET brokenLink ==
               \E i \in DOMAIN scenes : \E l \in Range(arr[scenes[i].links]) : ~Has(scenes, l)
           badScenePresence ==
               \E i \in DOMAIN scenes : \E c \in Range(arr[scenes[i].characterPresence]) :
                  \/ ~Has(characters, c)
                  \/ scenes[i].id \notin Range(arr[characters[Pos(characters, c)].scenePresence])
           badCharacterPresence ==
               \E i \in DOMAIN characters : \E sc \in Range(arr[characters[i].scenePresence]) :
                  \/ ~Has(scenes, sc)
                  \/ characters[i].id \notin Range(arr[scenes[Pos(scenes, sc)].characterPresence])
           badRelationship ==
               \E i \in DOMAIN characters : \E k \in DOMAIN characters[i].relationships :
                  ~Has(characters, characters[i].relationships[k].characterId)
           orphan ==
               \E i \in DOMAIN scenes : \A a \in DOMAIN arcs :
                  scenes[i].id \notin Range(arr[arcs[a].scenes])
           emptyArc == \E a \in DOMAIN arcs : arr[arcs[a].scenes] = <<>>
       IN /\ lastOp.report.coherent
             <=> ~(HasCycle \/ brokenLink \/ badScenePresence \/ badCharacterPresence
                   \/ badRelationship)
          /\ (orphan <=> "orphaned_scenes" \in Range(lastOp.report.warnings))
          /\ (emptyArc <=> "empty_arcs" \in Range(lastOp.report.warnings))
          /\ \A k \in DOMAIN lastOp.report.issues : lastOp.report.issues[k].severity = "error"

\* C11 witness: a store with an orphan scene and an empty arc and no error was
\* reported coherent with both warnings
C11_Witness ==
    /\ lastOp.op = "checkCoherence"
    /\ lastOp.report.coherent
    /\ Len(lastOp.report.warnings) = 2
    /\ Len(scenes) > 0 /\ Len(characters) > 0

\* what the live store holds, timestamps included
StoreJSON == SnapshotJSON(createSnapshot)

C13_SwitchLoadsStoredSnapshot ==
    [][(calls' # calls /\ lastOp'.op = "switchBranch" /\ lastOp'.ok)
       => /\ StoreContent' = lastStored[lastOp'.branch]
          /\ currentBranch' = lastOp'.branch]_vars

\* C14: createBranch with the name main or a used name, switchBranch, mergeBranch
\* or deleteBranch naming no branch, and deleteBranch on the protected or the
\* checked-out branch each fail and leave the set of branches, every stored
\* snapshot, the current-branch pointer and the live store unchanged.
C14_BranchErrorsChangeNothing ==
    [][LET name == lastOp'.branch
           erroneous ==
               \/ lastOp'.op = "createBranch" /\ (name = "main" \/ name \in DOMAIN branches)
               \/ lastOp'.op \in {"switchBranch", "mergeBranch", "deleteBranch"}
                  /\ name \notin DOMAIN branches
               \/ lastOp'.op = "deleteBranch" /\ name \in DOMAIN branches
                  /\ (branches[name].protected \/ name = currentBranch)
       IN (calls' # calls /\ erroneous)
          => /\ ~lastOp'.ok
             /\ DOMAIN branches' = DOMAIN branches
             /\ BranchContent' = BranchContent
             /\ StoredContent' = StoredContent
             /\ currentBranch' = currentBranch
             /\ StoreContent' = StoreContent
             /\ UNCHANGED <<scenes, arcs, characters, branches, snapshots>>]_vars

\* C14 witness: deleting the checked-out, unprotected branch was refused while
\* the store holds a scene
C14_Witness ==
    /\ lastOp.op = "deleteBranch" /\ ~lastOp.ok
    /\ lastOp.branch = currentBranch /\ ~branches[currentBranch].protected
    /\ Len(scenes) > 0

\* the conflicts of the last call whose type is one of types and whose
\* entity is id
ConflictsFor(conflicts, types, id) ==
    LET About(c) == c.type \in types /\ c.entityId = id
    IN SelectSeq(conflicts, About)

\* C15: when the source and the current branch's snapshot both hold a scene
\* (an arc) with the same identifier and different content, as the merge
\* compares it (the serialized record), mergeBranch reports exactly one
\* conflict for that identifier, of type scene_modified (arc_modified),
\* and changes nothing.
C15_ModifiedInBothConflicts ==
    [][MergeStep =>
        LET source == branches[lastOp'.branch].snapshot
            target == branches[currentBranch].snapshot
            Unchanged ==
                /\ ~lastOp'.ok
                /\ BranchContent' = BranchContent
                /\ StoreContent' = StoreContent
                /\ currentBranch' = currentBranch
                /\ UNCHANGED <<scenes, arcs, characters, branches, snapshots>>
        IN /\ \A i \in DOMAIN source.scenes :
                LET s == source.scenes[i]
                IN (/\ Has(target.scenes, s.id)
                    /\ SceneJSON(s) # SceneJSON(target.scenes[Pos(target.scenes, s.id)]))
                   => /\ ConflictsFor(lastOp'.conflicts, {"scene_modified", "scene_deleted"}, s.id)
                         = <<[type |-> "scene_modified", entityId |-> s.id]>>
                      /\ Unchanged
           /\ \A i \in DOMAIN source.arcs :
                LET a == source.arcs[i]
                IN (/\ Has(target.arcs, a.id)
                    /\ ArcJSON(a) # ArcJSON(target.arcs[Pos(target.arcs, a.id)]))
                   => /\ ConflictsFor(lastOp'.conflicts, {"arc_modified", "arc_deleted"}, a.id)
                         = <<[type |-> "arc_modified", entityId |-> a.id]>>
                      /\ Unchanged]_vars

\* C15 witness: a merge was refused with a scene_modified conflict on scene 1,
\* whose premise differs between the two branches
C15_Witness ==
    /\ lastOp.op = "mergeBranch" /\ ~lastOp.ok
    /\ lastOp.branch \in DOMAIN branches
    /\ lastOp.conflicts = <<[type |-> "scene_modified", entityId |-> 1]>>
    /\ \E i \in DOMAIN BranchContent[lastOp.branch].scenes :
       \E j \in DOMAIN BranchContent[currentBranch].scenes :
          /\ BranchContent[lastOp.branch].scenes[i].id = 1
          /\ BranchContent[currentBranch].scenes[j].id = 1
          /\ BranchContent[lastOp.branch].scenes[i].premise
             # BranchContent[currentBranch].scenes[j].premise

\* two lists hold the same elements, in whatever order
SameElements(s, t) == Range(s) = Range(t) /\ Len(s) = Len(t)

SameScene(a, b) ==
    /\ a.title = b.title /\ a.premise = b.premise /\ a.why = b.why /\ a.how = b.how
    /\ a.cost = b.cost /\ a.links = b.links
    /\ SameElements(a.characterPresence, b.characterPresence)

SameArc(a, b) == a.intent = b.intent /\ a.scenes = b.scenes /\ a.aridFlow = b.aridFlow

SameCharacter(a, b) ==
    /\ a.name = b.name /\ a.description = b.description /\ a.role = b.role
    /\ a.traits = b.traits /\ a.relationships = b.relationships
    /\ SameElements(a.scenePresence, b.scenePresence)

Ids(m) == {m[i].id : i \in DOMAIN m}

\* the two stores hold the same identifiers with the same attribute values,
\* timestamps apart
StructurallyEqual(A, B) ==
    /\ Ids(A.scenes) = Ids(B.scenes)
    /\ Ids(A.arcs) = Ids(B.arcs)
    /\ Ids(A.characters) = Ids(B.characters)
    /\ \A id \in Ids(A.scenes) : SameScene(Get(A.scenes, id), Get(B.scenes, id))
    /\ \A id \in Ids(A.arcs) : SameArc(Get(A.arcs, id), Get(B.arcs, id))
    /\ \A id \in Ids(A.characters) : SameCharacter(Get(A.characters, id), Get(B.characters, id))

\* C16: calculateDrift(A, B) returns driftScore 0 and no difference exactly
\* when A and B are structurally equal, the characters present in a scene and
\* the scenes a character is present in compared as sets.
C16_ZeroDriftIffEqual ==
    lastMirror.op = "calculateDrift"
    => ((lastMirror.drift.driftScore = 0 /\ lastMirror.drift.differences = <<>>)
        <=> StructurallyEqual(graphA, graphB))

\* the number of compared fields in which two scenes differ
DifferingFields(a, b) ==
    Cardinality({f \in {"title", "premise", "why", "how", "cost", "links", "characterPresence"} :
                    a[f] # b[f]})

\* what a modified scene adds to the sum when it is a in one store and b in
\* the other
ModifiedWeight(a, b) ==
    calculateDrift([EmptyGraph EXCEPT !.scenes = <<a>>],
                   [EmptyGraph EXCEPT !.scenes = <<b>>]).differences[1].weight

RECURSIVE SumOfWeights(_)
SumOfWeights(differences) ==
    IF differences = <<>> THEN 0
    ELSE Head(differences).weight + SumOfWeights(Tail(differences))

\* The returned score is the sum of the weights, at most 100, and every
\* difference has the weight of its class; a modified character weighs at
\* most most.
DriftWeights(most) ==
    LET drift == lastMirror.drift
        InA(m, d) == Has(graphA[m], d.affectedIds[1])
        InB(m, d) == Has(graphB[m], d.affectedIds[1])
        InBoth(m, d) == InA(m, d) /\ InB(m, d)
        InOne(m, d) == InA(m, d) # InB(m, d)
    IN /\ drift.driftScore \in 0..100
       /\ drift.driftScore = IF SumOfWeights(drift.differences) < 100
                             THEN SumOfWeights(drift.differences) ELSE 100
       /\ \A i \in DOMAIN drift.differences :
            LET d == drift.differences[i]
                id == d.affectedIds[1]
            IN CASE d.type \in {"scene_added", "scene_removed"} ->
                        InOne("scenes", d) /\ d.weight = 5
                 [] d.type = "scene_modified" ->
                        /\ InBoth("scenes", d)
                        /\ d.weight \in 1..3
                        /\ \A a \in SceneVariants, b \in SceneVariants :
                             LET n == DifferingFields(Get(graphA.scenes, id),
                                                      Get(graphB.scenes, id))
                             IN /\ (a # b /\ DifferingFields(a, b) >= n)
                                    => ModifiedWeight(a, b) >= d.weight
                                /\ (a # b /\ DifferingFields(a, b) > 0 /\ DifferingFields(a, b) <= n)
                                    => ModifiedWeight(a, b) <= d.weight
                 [] d.type = "arc_changed" ->
                        d.weight \in 3..5
                 [] d.type = "character_changed" ->
                        IF InOne("characters", d) THEN d.weight = 4
                        ELSE InBoth("characters", d) /\ d.weight \in 1..most

\* C17 as stated: driftScore is min(100, sum of the weights), an integer in
\* 0..100, with 5 per scene in one store only, 1 to 3 per modified scene and
\* not less for more differing fields, 3 to 5 per changed arc, 4 per character
\* in one store only, and 1 to 2 per modified character.
C17_WeightsAsStated == lastMirror.op = "calculateDrift" => DriftWeights(2)

\* C17 amended: the same, with 1 to 8 per modified character (2 for the name,
\* 1 for the description, the role, the traits and the scene presence each,
\* 2 for the relationships).
C17_DriftScoreIsCappedSum == lastMirror.op = "calculateDrift" => DriftWeights(8)

\* C17 witness: a drift was computed for two stores that both hold character 1,
\* different in every compared field
C17_Witness ==
    /\ lastMirror.op = "calculateDrift"
    /\ \E i \in DOMAIN lastMirror.drift.differences :
          /\ lastMirror.drift.differences[i].type = "character_changed"
          /\ lastMirror.drift.differences[i].weight = 8
          /\ Has(graphA.characters, 1) /\ Has(graphB.characters, 1)

\* the step is a synchronize(graphA, graphB) call
SyncStep == lastMirror.op = "none" /\ lastMirror'.op = "synchronize"

\* the identifiers the source holds and the target lacks
Missing(m) == Ids(graphA[m]) \ Ids(graphB[m])

\* C18: after synchronize(source, target), under any strategy, every scene,
\* arc and character that the source held and the target lacked is in the
\* target with the source's attribute values, and changes.scenesAdded counts
\* each scene added this way.
C18_SyncAddsMissing ==
    [][SyncStep =>
        /\ \A id \in Missing("scenes") :
              /\ Has(graphB'.scenes, id)
              /\ SameScene(Get(graphB'.scenes, id), Get(graphA.scenes, id))
        /\ \A id \in Missing("arcs") :
              /\ Has(graphB'.arcs, id)
              /\ SameArc(Get(graphB'.arcs, id), Get(graphA.arcs, id))
        /\ \A id \in Missing("characters") :
              /\ Has(graphB'.characters, id)
              /\ SameCharacter(Get(graphB'.characters, id), Get(graphA.characters, id))
        /\ lastMirror'.report.changes.scenesAdded >= Cardinality(Missing("scenes"))]_vars

Kinds == {"scenes", "arcs", "characters"}

\* another entity of store g refers to entity id of kind m: an arc lists the
\* scene, a scene holds the character, another character's relationship
\* names the character
Referenced(g, m, id) ==
    CASE m = "scenes" -> \E i \in DOMAIN g.arcs : Includes(g.arcs[i].scenes, id)
      [] m = "characters" ->
            \/ \E i \in DOMAIN g.scenes : Includes(g.scenes[i].characterPresence, id)
            \/ \E i \in DOMAIN g.characters :
                  /\ g.characters[i].id # id
                  /\ \E k \in DOMAIN g.characters[i].relationships :
                        g.characters[i].relationships[k].characterId = id
      [] m = "arcs" -> FALSE

ConflictType(m) ==
    CASE m = "scenes" -> "scene_conflict"
      [] m = "arcs" -> "arc_conflict"
      [] m = "characters" -> "character_conflict"

\* the report holds an unresolved conflict about entity id of kind m
ConflictAbout(report, m, id) ==
    \E i \in DOMAIN report.conflicts :
        /\ report.conflicts[i].type = ConflictType(m)
        /\ report.conflicts[i].id[2] = id
        /\ ~report.conflicts[i].resolved

\* C19: synchronize deletes an entity from the target only if no other entity
\* of the target refers to it; an entity of the target that the source lacks
\* and that is referred to is reported as a conflict and is still in the
\* target after the call.
C19_SyncDeletesOnlyUnreferenced ==
    [][SyncStep =>
        \A m \in Kinds :
            /\ \A id \in Ids(graphB[m]) \ Ids(graphB'[m]) : ~Referenced(graphB, m, id)
            /\ \A id \in Ids(graphB[m]) \ Ids(graphA[m]) :
                  Referenced(graphB, m, id)
                  => /\ id \in Ids(graphB'[m])
                     /\ ConflictAbout(lastMirror'.report, m, id)]_vars

\* the source and the target hold entity id of kind m with different content
Differing(m, id) ==
    /\ id \in Ids(graphA[m]) \cap Ids(graphB[m])
    /\ CASE m = "scenes" -> ~SameScene(Get(graphA.scenes, id), Get(graphB.scenes, id))
         [] m = "arcs" -> ~SameArc(Get(graphA.arcs, id), Get(graphB.arcs, id))
         [] m = "characters" ->
                ~SameCharacter(Get(graphA.characters, id), Get(graphB.characters, id))

\* C20: under the manual strategy every entity that both stores hold with
\* different content gets an unresolved conflict and is left as it was in the
\* target, the entities the target lacked are added all the same, and
\* report.success is true exactly when no unresolved conflict was recorded.
C20_ManualRecordsConflicts ==
    [][(SyncStep /\ sidecar.conflictStrategy = "manual") =>
        /\ \A m \in Kinds : \A id \in Ids(graphB[m]) :
              Differing(m, id)
              => /\ ConflictAbout(lastMirror'.report, m, id)
                 /\ Has(graphB'[m], id)
                 /\ Get(graphB'[m], id) = Get(graphB[m], id)
        /\ \A m \in Kinds : \A id \in Missing(m) : Has(graphB'[m], id)
        /\ lastMirror'.report.success
           <=> (\A i \in DOMAIN lastMirror'.report.conflicts :
                   lastMirror'.report.conflicts[i].resolved)]_vars

\* two entities of kind m hold the same attribute values, timestamps apart
SameContent(m, a, b) ==
    CASE m = "scenes" -> SameScene(a, b)
      [] m = "arcs" -> SameArc(a, b)
      [] m = "characters" -> SameCharacter(a, b)

\* the version of an entity that the strategy lets the target hold: the
\* versions among which the target's content after the call must be
Chosen(strategy, source, previous) ==
    CASE strategy = "prefer_source" -> {source}
      [] strategy = "prefer_target" -> {previous}
      [] strategy = "newest_wins" ->
            IF source.updatedAt > previous.updatedAt THEN {source}
            ELSE IF source.updatedAt < previous.updatedAt THEN {previous}
            ELSE {source, previous}
      [] OTHER -> {previous}

\* C21: after synchronize, a scene, arc or character that both stores held
\* with differing content has in the target the source's attribute values
\* under prefer_source, the target's previous values under prefer_target, and
\* under newest_wins the values of the version modified last.
C21_StrategyDecidesContent ==
    [][(SyncStep /\ sidecar.conflictStrategy # "manual") =>
        \A m \in Kinds : \A id \in Ids(graphB[m]) :
            Differing(m, id)
            => /\ Has(graphB'[m], id)
               /\ \E version \in Chosen(sidecar.conflictStrategy,
                                        Get(graphA[m], id), Get(graphB[m], id)) :
                     SameContent(m, Get(graphB'[m], id), version)]_vars

\* the last call was validateTemporalConsistency(graphA); the timelines and
\* the store are those it saw
Validated == lastTimeline.op = "validateTemporalConsistency"

\* the character_presence errors of the report for a character at a timestamp
\* of a timeline
PresenceErrors(timeline, characterId, timestamp) ==
    {i \in DOMAIN lastTimeline.report.issues :
        LET issue == lastTimeline.report.issues[i]
        IN /\ issue.type = "character_presence" /\ issue.severity = "error"
           /\ issue.timelineIds = <<timeline.id>>
           /\ issue.affectedCharacters = <<characterId>>
           /\ \E k \in DOMAIN timeline.timePoints :
                 /\ timeline.timePoints[k].sceneId = issue.affectedScenes[1]
                 /\ timeline.timePoints[k].timestamp = timestamp}

\* two points of the timeline have the timestamp, and the scenes of both list
\* the character
Clash(timeline, characterId, timestamp) ==
    \E i, j \in DOMAIN timeline.timePoints :
        /\ i # j
        /\ \A k \in {i, j} :
              /\ timeline.timePoints[k].timestamp = timestamp
              /\ Has(graphA.scenes, timeline.timePoints[k].sceneId)
              /\ Includes(Get(graphA.scenes, timeline.timePoints[k].sceneId).characterPresence,
                          characterId)

\* C22 as stated: for every timeline, character and timestamp the report holds
\* exactly one character_presence error when two points of the timeline share
\* the timestamp and the scenes of both list the character, and none otherwise.
C22_OneErrorPerClash ==
    Validated =>
        \A t \in DOMAIN timelines, c \in 1..MaxMirrorChars, stamp \in Timestamps :
            Cardinality(PresenceErrors(timelines[t], c, stamp))
                = IF Clash(timelines[t], c, stamp) THEN 1 ELSE 0

\* C22: for every timeline, character and timestamp the report holds exactly
\* one character_presence error when two points of the timeline share the
\* timestamp, the scenes of both list the character and the store holds the
\* character, and none otherwise.
C22_OneErrorPerClashOfKnownCharacter ==
    Validated =>
        \A t \in DOMAIN timelines, c \in 1..MaxMirrorChars, stamp \in Timestamps :
            Cardinality(PresenceErrors(timelines[t], c, stamp))
                = IF Clash(timelines[t], c, stamp) /\ Has(graphA.characters, c) THEN 1 ELSE 0

\* a report with a presence error for a character of the store, and none for
\* a character that two simultaneous scenes list and the store lacks
C22_Witness ==
    /\ Validated
    /\ \E t \in DOMAIN timelines, stamp \in Timestamps :
          /\ Clash(timelines[t], 2, stamp)
          /\ Cardinality(PresenceErrors(timelines[t], 2, stamp)) = 1
          /\ Clash(timelines[t], 1, stamp)
          /\ ~Has(graphA.characters, 1)

\* the character is present in a scene of a point of the timeline
ShownIn(timeline, characterId) ==
    \E k \in DOMAIN timeline.timePoints :
        /\ Has(graphA.scenes, timeline.timePoints[k].sceneId)
        /\ Includes(Get(graphA.scenes, timeline.timePoints[k].sceneId).characterPresence,
                    characterId)

\* C23: for a flashback timeline whose declared parent exists, the report
\* holds a paradox warning for every character of the store that a scene of
\* the flashback shows and no scene of the parent timeline shows.
C23_FlashbackParadoxWarned ==
    Validated =>
        \A t \in DOMAIN timelines :
            (/\ timelines[t].type = "flashback"
             /\ timelines[t].parentTimelineId # <<>>
             /\ Has(timelines, timelines[t].parentTimelineId[1]))
            => \A c \in Ids(graphA.characters) :
                  (/\ ShownIn(timelines[t], c)
                   /\ ~ShownIn(Get(timelines, timelines[t].parentTimelineId[1]), c))
                  => \E i \in DOMAIN lastTimeline.report.issues :
                        /\ lastTimeline.report.issues[i].type = "paradox"
                        /\ lastTimeline.report.issues[i].severity = "warning"
                        /\ lastTimeline.report.issues[i].affectedCharacters = <<c>>
                        /\ lastTimeline.report.issues[i].timelineIds[1] = timelines[t].id

\* the timeline declares a parent that the manager does not hold
ParentMissing(timeline) ==
    /\ timeline.parentTimelineId # <<>>
    /\ ~Has(timelines, timeline.parentTimelineId[1])

\* the report holds the error of a missing parent for the timeline
ParentError(report, timeline) ==
    \E i \in DOMAIN report.issues :
        /\ report.issues[i].type = "paradox"
        /\ report.issues[i].severity = "error"
        /\ report.issues[i].timelineIds = <<timeline.id>>

\* C24: whenever a timeline declares a parent that does not exist, because it
\* was never created or because deleteTimeline removed it, the report of
\* validateTemporalConsistency holds an error for that timeline and
\* consistent is false.
C24_MissingParentIsError ==
    Validated =>
        \A t \in DOMAIN timelines :
            ParentMissing(timelines[t])
            => /\ ParentError(lastTimeline.report, timelines[t])
               /\ ~lastTimeline.report.consistent

\* a validation with a timeline left behind by its parent: the other
\* identifier is free again, and the report holds the error
C24_Witness ==
    /\ Validated
    /\ Len(timelines) = 1
    /\ ParentMissing(timelines[1])
    /\ timelineCalls >= 3
    /\ ParentError(lastTimeline.report, timelines[1])
    /\ ~lastTimeline.report.consistent

\* C26: the driftAfter of the report is the drift of the two stores as
\* synchronize left them, it is never above driftBefore, and it is below
\* driftBefore whenever the source held a scene that the target lacked.
C26_DriftAfterIsRecomputedAndLower ==
    [][SyncStep =>
        /\ lastMirror'.report.driftAfter = calculateDrift(graphA', graphB').driftScore
        /\ lastMirror'.report.driftBefore = calculateDrift(graphA, graphB).driftScore
        /\ lastMirror'.report.driftAfter <= lastMirror'.report.driftBefore
        /\ Missing("scenes") # {}
           => lastMirror'.report.driftAfter < lastMirror'.report.driftBefore]_vars

\* ------------------------------------------------------------------ C30
\* C30: loadSnapshot, and with it switchBranch and rollback, is all-or-nothing.
\* After the call has returned or thrown the store holds its complete previous
\* content or the complete content of the snapshot it was given, and after
\* switchBranch the current branch is the named one exactly when the store
\* holds that branch's snapshot.
C30_LoadIsAllOrNothing ==
    [][calls' # calls =>
        /\ lastOp'.op = "reloadSnapshot" => StoreContent' = StoreContent
        /\ (lastOp'.op = "rollback" /\ Has(snapshots, lastOp'.id)) =>
              StoreContent' \in {StoreContent, StoredContent[Pos(snapshots, lastOp'.id)]}
        /\ (lastOp'.op = "switchBranch" /\ lastOp'.branch \in DOMAIN branches) =>
              \/ StoreContent' = BranchContent[lastOp'.branch]
                   /\ currentBranch' = lastOp'.branch
              \/ StoreContent' = StoreContent /\ currentBranch' = currentBranch]_vars

\* ------------------------------------------------------------------ C28
\* C28: the two stores given to synchronize stay independent.  The call does
\* not change the source, and a later addLink, addSceneToArc or
\* addCharacterToScene on one store changes nothing in the other.
Mutations == {"addLink", "addSceneToArc", "addCharacterToScene"}

C28_StoresStayIndependent ==
    [][/\ SyncStep => graphA' = graphA
       /\ (lastMirror.op = "synchronize" /\ lastMirror'.op \in Mutations) =>
             (graphA' = graphA \/ graphB' = graphB)]_vars

\* ------------------------------------------------------------------ C29
\* the second call was made while the first was suspended, and both returned
Overlapped ==
    /\ Len(syncs) = 2
    /\ syncs[2].overlaps
    /\ syncs[1].done /\ syncs[2].done

\* the two calls one after the other, from the stores the first call was given
SerialFirst ==
    synchronizeFrom(syncs[1].before.source, syncs[1].before.target, syncs[1].before.shared)
SerialSecond == synchronizeFrom(SerialFirst.source, SerialFirst.target, SerialFirst.shared)

Outcome(report) == [conflicts |-> report.conflicts, success |-> report.success]

\* C29: two overlapping synchronize calls on the same source and target leave
\* the target, and return the conflict lists and success flags, that the two
\* calls made one after the other leave and return.
C29_OverlappingCallsSerialize ==
    Overlapped =>
        /\ graphB = SerialSecond.target
        /\ <<Outcome(syncs[1].report), Outcome(syncs[2].report)>> \in
              {<<Outcome(SerialFirst.report), Outcome(SerialSecond.report)>>,
               <<Outcome(SerialSecond.report), Outcome(SerialFirst.report)>>}

\* ------------------------------------------------------------------ C25
\* the timers that were set and not cleared
LiveTimers(rt) == {interval \in DOMAIN rt.timers : rt.timers[interval].live}

MonitorOf(rt, interval) ==
    MonitorId(rt.timers[interval].branchNameA, rt.timers[interval].branchNameB)

\* the sidecar holds the timer under the identifier of its pair
Registered(rt, interval) ==
    /\ Has(rt.activeMonitors, MonitorOf(rt, interval))
    /\ Get(rt.activeMonitors, MonitorOf(rt, interval)).interval = interval

\* no pair has two timers, every timer can still be stopped, a second
\* stopMonitoring changes nothing, and stopMonitoring and shutdown leave no
\* timer of the monitors they stop
MonitorsCancellable(rt) ==
    /\ \A i, j \in LiveTimers(rt) :
          (/\ rt.timers[i].branchNameA = rt.timers[j].branchNameA
           /\ rt.timers[i].branchNameB = rt.timers[j].branchNameB) => i = j
    /\ \A i \in LiveTimers(rt) : Registered(rt, i)
    /\ \A monitorId \in MonitorIds :
          LET once == stopMonitoringIn(rt, monitorId)
          IN /\ stopMonitoringIn(once, monitorId) = once
             /\ \A i \in LiveTimers(once) : MonitorOf(once, i) # monitorId
    /\ LiveTimers(shutdownIn(rt)) = {}
    /\ shutdownIn(rt).activeMonitors = <<>>

\* the timer fires in this step
Ticks(interval) ==
    /\ interval \in DOMAIN timers
    /\ timers'[interval].ticks = timers[interval].ticks + 1

\* C25: a pair has at most one monitor timer at any time, startMonitoring on a
\* monitored pair clears the timer it replaces, stopMonitoring may be repeated,
\* and once stopMonitoring or shutdown has returned the monitor's timer fires
\* no more: only a timer that the sidecar still holds computes a drift.
C25_MonitorIsCancellable ==
    [][/\ MonitorsCancellable(Runtime)
       /\ MonitorsCancellable(Runtime)'
       /\ \A interval \in 1..MaxTimers :
             Ticks(interval) => Registered(Runtime, interval)]_vars

\* a pair was monitored, its timer fired, and the pair was started again
C25_Witness ==
    /\ Len(timers) = 2
    /\ timers[1].branchNameA = timers[2].branchNameA
    /\ timers[1].branchNameB = timers[2].branchNameB
    /\ timers[1].ticks > 0
    /\ ~timers[1].live
    /\ timers[2].live

\* ------------------------------------------------------------------ C27
\* C27: shouldAutoSync is true exactly for a drift score strictly below the
\* autoSyncThreshold, and a tick of the monitor starts a synchronize exactly
\* when the drift it has computed is such a one.
C27_TickSyncsBelowThreshold ==
    [][(\E interval \in 1..MaxTimers : Ticks(interval)) =>
          LET drift == calculateDrift(graphA, graphB)
          IN /\ lastMirror'.drift = drift
             /\ shouldAutoSync(drift) <=> drift.driftScore < sidecar.autoSyncThreshold
             /\ Len(syncs') = Len(syncs) + 1
                   <=> drift.driftScore < sidecar.autoSyncThreshold]_vars

\* a tick found the stores a scene apart, as far as the threshold, and
\* started no synchronize
C27_Witness ==
    /\ lastMirror.op = "tick"
    /\ lastMirror.drift.driftScore > 0
    /\ lastMirror.drift.driftScore = sidecar.autoSyncThreshold
    /\ syncs = <<>>

\* the points of the timeline are in non-decreasing order of timestamp and
\* no two of them are of the same scene
PointsInOrder(timeline) ==
    \A i, j \in DOMAIN timeline.timePoints :
        i < j => /\ timeline.timePoints[i].timestamp <= timeline.timePoints[j].timestamp
                 /\ timeline.timePoints[i].sceneId # timeline.timePoints[j].sceneId

\* an addTimePoint for a scene the timeline already has a point of throws,
\* and neither the timelines nor the scene index change
DuplicateRejected ==
    \A id \in TimelineIds, s \in 1..MaxMirrorScenes, t \in Timestamps :
        (/\ Has(timelines, id)
         /\ HasPoint(Get(timelines, id).timePoints, s)
         /\ addTimePoint(id, [sceneId |-> s, timestamp |-> t]))
        => /\ lastTimeline'.op = "addTimePoint"
           /\ ~lastTimeline'.ok
           /\ timelines' = timelines
           /\ sceneToTimeline' = sceneToTimeline

\* C31: addTimePoint for a scene that already has a point in that timeline
\* throws and leaves the timelines and the scene index unchanged; after any
\* sequence of calls every timeline's points are in non-decreasing timestamp
\* order and hold each scene at most once.
C31_PointsSortedAndUnique ==
    /\ [](\A t \in DOMAIN timelines : PointsInOrder(timelines[t]))
    /\ [][DuplicateRejected]_vars

\* an addTimePoint that threw on a timeline which exists, so for a scene it
\* has, and which holds two points of different timestamps
C31_Witness ==
    /\ lastTimeline.op = "addTimePoint"
    /\ ~lastTimeline.ok
    /\ Has(timelines, lastTimeline.id)
    /\ Len(Get(timelines, lastTimeline.id).timePoints) = 2
    /\ Get(timelines, lastTimeline.id).timePoints[1].timestamp
          < Get(timelines, lastTimeline.id).timePoints[2].timestamp

\* getTimelinesForScene(sceneId): the list of the index, or an empty one
getTimelinesForScene(sceneId) == sceneToTimeline[sceneId]

\* C38: after any sequence of createTimeline, addTimePoint, removeTimePoint,
\* deleteTimeline and clear calls, failed ones included,
\* getTimelinesForScene(s) holds timeline t exactly when t exists and has a
\* point for scene s, and holds no identifier twice.
C38_SceneIndexMatchesTimelines ==
    \A s \in 1..MaxMirrorScenes :
        /\ \A t \in TimelineIds :
              Includes(getTimelinesForScene(s), t)
              <=> /\ Has(timelines, t)
                  /\ HasPoint(Get(timelines, t).timePoints, s)
        /\ \A i, j \in DOMAIN getTimelinesForScene(s) :
              i # j => getTimelinesForScene(s)[i] # getTimelinesForScene(s)[j]

\* a removeTimePoint took one scene's point out of a timeline that keeps the
\* point of another scene: the first scene is indexed nowhere, the other in
\* that timeline
C38_Witness ==
    /\ lastTimeline.op = "removeTimePoint"
    /\ lastTimeline.ok
    /\ \E s, r \in 1..MaxMirrorScenes :
          /\ getTimelinesForScene(s) = <<>>
          /\ getTimelinesForScene(r) = <<lastTimeline.id>>
          /\ HasPoint(Get(timelines, lastTimeline.id).timePoints, r)

\* the last n elements of a sequence, all of them if it has no more
Newest(list, n) ==
    IF Len(list) > n THEN SubSeq(list, Len(list) - n + 1, Len(list)) ELSE list

\* the manager holds no more than its maximum, in the order of creation
Retained ==
    /\ Len(snapshots) <= maxSnapshots
    /\ \A i, j \in DOMAIN snapshots : i < j => snapshots[i].id < snapshots[j].id

\* what a step of the manager does to the list: a create appends and keeps
\* the newest, a setMaxSnapshots of 1 or more keeps the newest, and one
\* below 1 throws and changes neither the list nor the maximum
RetentionStep ==
    /\ lastOp'.op \in {"createAutoSnapshot", "createManualSnapshot"}
       => /\ lastOp'.ok
          /\ maxSnapshots' = maxSnapshots
          /\ LET new == Newest(snapshots', 1)
             IN /\ Len(new) = 1
                /\ new[1].id = lastOp'.id
                /\ \A i \in DOMAIN snapshots : snapshots[i].id < new[1].id
                /\ snapshots' = Newest(snapshots \o new, maxSnapshots)
    /\ (lastOp'.op = "setMaxSnapshots" /\ lastOp'.id >= 1)
       => /\ lastOp'.ok
          /\ maxSnapshots' = lastOp'.id
          /\ snapshots' = Newest(snapshots, lastOp'.id)
    /\ (lastOp'.op = "setMaxSnapshots" /\ lastOp'.id < 1)
       => /\ ~lastOp'.ok
          /\ maxSnapshots' = maxSnapshots
          /\ snapshots' = snapshots

\* C32: after any sequence of createAutoSnapshot, createManualSnapshot,
\* deleteSnapshot and setMaxSnapshots calls the manager holds at most
\* maxSnapshots snapshots; over the bound the oldest are evicted first, so
\* the retained ones are the most recently created in creation order;
\* setMaxSnapshots with a value below 1 throws and changes nothing.
C32_RetentionIsBounded ==
    /\ []Retained
    /\ [][RetentionStep]_vars

\* a create that evicted: the manager is full and its oldest snapshot is
\* not the first one taken
C32_Witness ==
    /\ lastOp.op \in {"createAutoSnapshot", "createManualSnapshot"}
    /\ Len(snapshots) = maxSnapshots
    /\ Len(snapshots) = 2
    /\ snapshots[1].id > 1


\* store B is store A with one scene more, scene c, which no scene links
\* to, no arc lists and no character is present in
ExtraScene(A, B, c) ==
    /\ Has(B.scenes, c) /\ ~Has(A.scenes, c)
    /\ MapDelete(B.scenes, c) = A.scenes
    /\ B.arcs = A.arcs
    /\ B.characters = A.characters
    /\ \A i \in DOMAIN B.scenes : ~Includes(B.scenes[i].links, c)
    /\ \A i \in DOMAIN B.arcs : ~Includes(B.arcs[i].scenes, c)
    /\ \A i \in DOMAIN B.characters : ~Includes(B.characters[i].scenePresence, c)

\* the drift has the score of one scene and one difference, of the type
\* given, about scene c
OneSceneDrift(drift, type, c) ==
    /\ drift.driftScore = 5
    /\ Len(drift.differences) = 1
    /\ drift.differences[1].type = type
    /\ drift.differences[1].affectedIds = <<c>>

\* C33: for two stores identical except that B holds one extra scene C that
\* nothing refers to, calculateDrift(A, B) returns score 5 and exactly one
\* difference, of type scene_added, and calculateDrift(B, A) score 5 and
\* exactly one difference of type scene_removed; in general the score of
\* (A, B) is the score of (B, A).
C33_ExtraSceneScoresFive ==
    lastMirror.op = "calculateDrift"
    => /\ \A c \in 1..CapScenes :
             ExtraScene(graphA, graphB, c)
             => /\ OneSceneDrift(lastMirror.drift, "scene_added", c)
                /\ OneSceneDrift(calculateDrift(graphB, graphA), "scene_removed", c)
       /\ \A c \in 1..CapScenes :
             ExtraScene(graphB, graphA, c)
             => OneSceneDrift(lastMirror.drift, "scene_removed", c)
       /\ lastMirror.drift.driftScore = calculateDrift(graphB, graphA).driftScore

\* a drift was computed for a store with a scene and the same store with
\* a second scene that nothing refers to
C33_Witness ==
    /\ lastMirror.op = "calculateDrift"
    /\ Len(graphA.scenes) = 1
    /\ \E c \in 1..CapScenes : ExtraScene(graphA, graphB, c)
    /\ lastMirror.drift.driftScore = 5


\* the scenes of the weakly connected component of scene a: those joined to it
\* by links of the store taken in either direction
RECURSIVE Joined(_, _)
Joined(S, k) ==
    LET step == S \cup {b \in GraphIds : \E a \in S : Linked(a, b) \/ Linked(b, a)}
    IN IF k = 0 THEN S ELSE Joined(step, k - 1)

Component(a) == Joined({a}, MaxGraph)

\* C34: detectCircularDependencies reports at most one cycle per connected
\* component of the scene-link graph: no two of the returned paths lie in the
\* same weakly connected component.
C34_OneCyclePerComponent ==
    lastOp.op = "detectCircularDependencies"
    => \A i, j \in DOMAIN lastOp.cycles :
          i # j => lastOp.cycles[j][1] \notin Component(lastOp.cycles[i][1])


\* C35: in every state reached by createBranch, switchBranch, saveBranch,
\* mergeBranch and deleteBranch calls, failed ones included, the branch main
\* exists and is protected and the current-branch pointer names an existing
\* branch; before the first call the pointer is main.
C35_MainStaysAndPointerIsValid ==
    /\ "main" \in DOMAIN branches
    /\ branches["main"].protected
    /\ currentBranch \in DOMAIN branches
    /\ calls = 0 => currentBranch = "main"

\* with another branch checked out, a deleteBranch of main was refused
C35_Witness ==
    /\ lastOp.op = "deleteBranch" /\ ~lastOp.ok
    /\ lastOp.branch = "main"
    /\ currentBranch # "main"
    /\ "main" \in DOMAIN branches


\* character c, in the store, lists scene s
ListsScene(c, s) ==
    Has(characters, c) /\ Includes(arr[characters[Pos(characters, c)].scenePresence], s)

\* scene s, in the store, lists character c
ListsCharacter(s, c) ==
    Has(scenes, s) /\ Includes(arr[scenes[Pos(scenes, s)].characterPresence], c)

\* C36: from an empty store, with createScene and createCharacter without
\* presence lists, addCharacterToScene, removeCharacterFromScene,
\* deleteScene and deleteCharacter only: in every state and for every
\* character c and scene s, s is in c.scenePresence exactly when c is in
\* s.characterPresence, and then both c and s exist in the store.
C36_PresenceIsMutual ==
    \A c \in 1..(MaxChars + 1), s \in 1..(MaxScenes + 1) :
        /\ ListsScene(c, s) <=> ListsCharacter(s, c)
        /\ ListsScene(c, s) => Has(scenes, s)
        /\ ListsCharacter(s, c) => Has(characters, c)

\* a scene was deleted that a character was present in; the character is
\* still in the store and lists nothing
C36_Witness ==
    /\ lastOp.op = "deleteScene" /\ lastOp.ok
    /\ calls = 4
    /\ Len(characters) = 1
    /\ arr[characters[1].scenePresence] = <<>>
    /\ scenes = <<>>


\* every identifier in every arc's scene list is that of a stored scene
ArcsListStoredScenes ==
    \A i \in DOMAIN arcs :
        \A k \in DOMAIN arr[arcs[i].scenes] : Has(scenes, arr[arcs[i].scenes][k])

\* an addSceneToArc that names a missing arc or a missing scene throws and
\* leaves the arcs and their scene lists as they were
MissingRejected ==
    \A a \in ArcIds, sc \in SceneIds, pos \in -1..MaxScenes :
        (/\ ~Has(arcs, a) \/ ~Has(scenes, sc)
         /\ addSceneToArc(a, sc, pos))
        => /\ ~lastOp'.ok
           /\ arcs' = arcs
           /\ \A i \in DOMAIN arcs : arr'[arcs[i].scenes] = arr[arcs[i].scenes]

\* C37: after any sequence of createScene, createArc, addSceneToArc,
\* updateArc, deleteScene and deleteArc calls every scene identifier in every
\* arc's scene list names a scene that exists in the store; addSceneToArc with
\* a missing arc or a missing scene throws and leaves the arc unchanged.
C37_ArcsListExistingScenes ==
    /\ []ArcsListStoredScenes
    /\ [][MissingRejected]_vars


\* the cycles that a solver just constructed finds in the live store
FreshCycles == detectLoop(1, NewSolver, <<>>).cycles

\* the step is a call of the solver
SolverStep ==
    /\ calls' # calls
    /\ lastOp'.op \in {"checkCoherence", "detectCircularDependencies", "reset"}

\* C40: checkCoherence and detectCircularDependencies never modify the store
\* and carry no state between calls: whatever was checked before, and with
\* or without a reset() in between, a call returns the issues and cycles that
\* a new solver returns for the store as it is, so repeated calls on an
\* unchanged store return the same.
C40_SolverIsPure ==
    /\ []((lastOp.op = "detectCircularDependencies" => lastOp.cycles = FreshCycles)
          /\ (lastOp.op = "checkCoherence" => lastOp.report = coherenceReportOf(FreshCycles)))
    /\ [][SolverStep => /\ UNCHANGED <<scenes, arcs, characters, arr, meta, flow>>
                        /\ StoreContent' = StoreContent]_vars

\* the fourth call of a run, which a check of the same store or a reset may
\* precede, asked the solver for the cycles and got the one of the only scene
C40_Witness ==
    /\ lastOp.op = "detectCircularDependencies"
    /\ calls = MaxCalls
    /\ Len(scenes) = 1
    /\ lastOp.cycles = <<<<scenes[1].id, scenes[1].id>>>>
    /\ solver.visited = {scenes[1].id}


\* an arc of the target lists the scene
ListedInTarget(sceneId) ==
    \E i \in DOMAIN graphB.arcs : Includes(graphB.arcs[i].scenes, sceneId)

\* the step is a segment of a synchronize that takes the scene out of the target
RemovedBySynchronize(sceneId) ==
    /\ lastMirror'.op \in {"call", "resume"}
    /\ Has(graphB.scenes, sceneId)
    /\ ~Has(graphB'.scenes, sceneId)

\* C39: a delete and its reference check never race: however the segments of
\* overlapping synchronize calls and addSceneToArc calls on the two stores
\* interleave, a synchronize takes a scene out of the target only when, at
\* that moment, no arc of the target lists the scene.
C39_RemovalChecksAtTheDelete ==
    [][\A sceneId \in 1..MaxMirrorScenes :
          RemovedBySynchronize(sceneId) => ~ListedInTarget(sceneId)]_vars

\* a call of synchronize was made while the target held scene 2 and the
\* target holds it no longer: a synchronize removed it, and only a caller's
\* addScene between the segments of a call lets one find it in the target
C39_Witness ==
    /\ \E i \in DOMAIN syncs : Has(syncs[i].before.target.scenes, 2)
    /\ ~Has(graphB.scenes, 2)
    /\ lastMirror.op = "resume"

====

